---- MODULE Spec2Model ----
(***************************************************************************)
(* Telegram-Twitch subscription gate: the credential store, the delegated  *)
(* token manager (ensure_valid_broadcaster_token / bot.py's                *)
(* get_valid_broadcaster_token) and the reconciliation sweeps (auditnow,   *)
(* auditfull, weekly job) of bot_twitch_linker.py.                         *)
(*                                                                         *)
(* Every handler is a process whose steps are the stretches of code        *)
(* between two awaits; the outcome of each external call (Telegram Bot     *)
(* API, Twitch API, database write) is chosen nondeterministically.        *)
(***************************************************************************)
EXTENDS Integers, Sequences, FiniteSets, TLC

\* ------------------------------------------------------------------ bounds
MaxTok == 2         \* token responses the Twitch token endpoint hands out
MaxTicks == 2       \* clock advances per behaviour
MaxMint == 2        \* state values start / setup mint per behaviour
MaxHonor == 2       \* completed callbacks per endpoint and state value

\* ------------------------------------------------------- program constants
Margin == 120           \* ensure_valid_broadcaster_token: obtained + expires - 120
DefaultExpiresIn == 3600  \* tokens.get("expires_in", 3600)
BotMargin == 60         \* bot.py save_broadcaster_tokens: margen 60s

\* ---------------------------------------------------------------- universe
Users == {1, 2}                 \* chat identities (telegram_id)
Groups == {1, 2}                \* Telegram group chat ids
BIds == {1, 2}                  \* broadcaster_id of the channel grants
Procs == {1, 2}                 \* handler invocations that may be in flight
TwitchId(u) == 10 + u           \* the Twitch account a chat identity links to
ExpiresInValues == {0, 121}     \* expires_in of a token response; 0: key absent
TickSteps == {1, 3479}          \* seconds the clock may jump at once
MintValues == 1..MaxMint        \* the values gen_state returns
StateValues == 1..(MaxMint + 1) \* state values a callback request may carry
TwitchIds == {TwitchId(u) : u \in Users}  \* the accounts that may log in at Twitch

VARIABLES
    now,               \* int(time.time())
    broadcasters,      \* table broadcasters: BIds -> row (bid = 0: no row)
    linked_twitch_id,  \* telegram_users.linked_twitch_id: -1 no row, 0 NULL
    links,             \* table links: set of <<telegram_id, twitch_id>>
    group_members,     \* table group_members: "none" | "in" (left_at NULL) | "left"
    privileged,        \* table privileged: set of <<group_id, telegram_id>>
    status,            \* Telegram's live ChatMember.status per <<group, user>>
    subscribed,        \* Twitch: the twitch ids subscribed to the channel
    broadcaster_token, \* bot.py table broadcaster_token (single row, bid = 0: none)
    proc,              \* the handler invocations
    nextTok,           \* next token the Twitch token endpoint issues
    ticks,             \* clock advances so far
    hist,              \* history of the last two sweeps (for the idempotence claim)
    oauth_states,      \* table oauth_states: state -> row (purpose "none": no row)
    twitch_users,      \* table twitch_users: the twitch ids with a row
    bot_users,         \* bot.py table users: telegram_id -> twitch_id (0: no row)
    sent,              \* the messages the Bot API has accepted: <<chat, kind, payload>>
    minted,            \* every state value put into an authorization URL so far
    honored,           \* how often a callback went past its state test, per state
    reply              \* the answer to the last OAuth callback request of interest

vars == <<now, broadcasters, linked_twitch_id, links, group_members, privileged,
          status, subscribed, broadcaster_token, proc, nextTok, ticks, hist,
          oauth_states, twitch_users, bot_users, sent, minted, honored, reply>>

\* everything but the answer to a callback request
written == <<now, broadcasters, linked_twitch_id, links, group_members, privileged,
             status, subscribed, broadcaster_token, proc, nextTok, ticks, hist,
             oauth_states, twitch_users, bot_users, sent, minted, honored>>

linkstate == <<oauth_states, twitch_users, bot_users, sent, minted, honored, reply>>

store == <<broadcasters, linked_twitch_id, links, group_members, privileged>>
world == <<status, subscribed>>

\* ------------------------------------------------------------------- rows
NoRow == [bid |-> 0, owner |-> 0, access |-> 0, refresh |-> 0,
          obtained |-> 0, ttl |-> 0, group |-> 0, invite |-> 0]

NoPending == [access |-> 0, refresh |-> 0, obtained |-> 0, ttl |-> 0]

TokenFields(row) == [access |-> row.access, refresh |-> row.refresh,
                     obtained |-> row.obtained, ttl |-> row.ttl]

\* A handler invocation. pc is the await it is parked at; the fields after
\* "site" record what the invocation has done (they are never read by it).
Idle == [kind |-> "idle", pc |-> "idle", chat |-> 0, by |-> 0, b |-> NoRow, evrow |-> NoRow,
         todo |-> <<>>, present |-> <<>>, grants |-> <<>>, uid |-> 0, tw |-> 0,
         access |-> 0, kicked |-> 0, site |-> "none", pending |-> NoPending,
         enum |-> {}, seen |-> {}, bans |-> {}, privbans |-> {}, marks |-> {},
         kept |-> {}, unknown |-> {}, counted |-> {}, refused |-> {}, swept |-> {}, failedGrants |-> {},
         ev |-> "none", evT |-> 0, calls |-> 0, writes |-> 0,
         resp |-> [access |-> 0, refresh |-> 0, expires_in |-> 0], respT |-> 0,
         checks |-> 0, answer |-> "none", reread |-> FALSE,
         clean |-> TRUE, reported |-> -1, event |-> "none"]

RECURSIVE Perms(_)
\* every order in which a set may be iterated (Python set / SQL without ORDER BY)
Perms(S) == IF S = {} THEN {<<>>}
            ELSE UNION {{<<x>> \o s : s \in Perms(S \ {x})} : x \in S}

\* ------------------------------------------------- Delegated Token Manager
\* (mutant of TokenFresh: the margin is dropped)
NoMarginFresh(row, t) == t < row.obtained + row.ttl
\* int(time.time()) < obtained + expires - 120
TokenFresh(row, t) == t < row.obtained + row.ttl - Margin

\* The JSON body of a successful token response: a new access token, a new
\* refresh token or none (rf = FALSE: key absent), expires_in or none (0).
TokenResponses == {[access |-> nextTok, refresh |-> IF rf THEN nextTok ELSE 0,
                    expires_in |-> e] : rf \in BOOLEAN, e \in ExpiresInValues}

\* tokens.get("expires_in", 3600)
ExpiresIn(resp) == IF resp.expires_in = 0 THEN DefaultExpiresIn ELSE resp.expires_in

\* (mutant of RefreshOf: the response's value is stored even when absent)
OverwriteRefresh(row, resp) == resp.refresh
\* tokens.get("refresh_token", b_row["refresh_token"])
RefreshOf(row, resp) == IF resp.refresh = 0 THEN row.refresh ELSE resp.refresh

\* the four values handed to the UPDATE of ensure_valid_broadcaster_token
Refreshed(row, resp, t) == [access |-> resp.access, refresh |-> RefreshOf(row, resp),
                            obtained |-> t, ttl |-> ExpiresIn(resp)]

\* (mutant of WriteTokens: the time columns are written by a later statement)
PartialWrite(tbl, bid, tup) ==
    [tbl EXCEPT ![bid].access = tup.access, ![bid].refresh = tup.refresh]
\* UPDATE broadcasters SET access_token=?, refresh_token=?, token_obtained_at=?,
\* token_expires_in=? WHERE broadcaster_id=?   (one statement)
WriteTokens(tbl, bid, tup) ==
    IF tbl[bid].bid = 0 THEN tbl
    ELSE [tbl EXCEPT ![bid].access = tup.access, ![bid].refresh = tup.refresh,
                     ![bid].obtained = tup.obtained, ![bid].ttl = tup.ttl]

\* ------------------------------------------ bot.py: the single-channel variant
\* a row of broadcaster_token; obtained and ttl are not columns: they record the
\* time and the expires_in the row was saved with
NoBotRow == [bid |-> 0, access |-> 0, refresh |-> 0, expires_at |-> 0,
             obtained |-> 0, ttl |-> 0]

\* save_broadcaster_tokens line 60: int(time.time()) + int(expires_in) - 60
ExpiresAt(t, expires_in) == t + expires_in - BotMargin

\* save_broadcaster_tokens lines 59-69: the upsert of the one row
SaveBroadcasterTokens(bid, access, refresh, expires_in, t) ==
    [bid |-> bid, access |-> access, refresh |-> refresh,
     expires_at |-> ExpiresAt(t, expires_in), obtained |-> t, ttl |-> expires_in]

\* ---------------------------------------------------- control flow helpers
Free(p) == proc[p].pc = "idle"

\* What the record of the two most recent sweeps becomes when a new handler
\* invocation takes the slot of a finished one.
Summary(r, quiet) == [kind |-> r.kind, bid |-> r.b.bid, clean |-> r.clean,
                      returned |-> r.pc = "done", kicked |-> r.kicked, quiet |-> quiet]
NoSummary == [kind |-> "idle", bid |-> 0, clean |-> TRUE, returned |-> FALSE,
              kicked |-> 0, quiet |-> TRUE]
Archive(p) == [last |-> Summary(proc[p], hist.quiet), quiet |-> TRUE]

\* (mutant of Raise: no handler catches anything)
RaiseUncaught(r) == [r EXCEPT !.pc = "failed", !.clean = FALSE]

\* Where an exception raised at the current await ends up.
\*  auditfull_cmd: "except Exception: continue" wraps the ban/unban/update and the
\*    subscription check (lines 825-852); everything else leaves the handler.
\*  check_and_notify_subscription: "except Exception" (lines 615-618) covers the
\*    try body only (the first ensure_valid and the first check); what the
\*    PermissionError handler raises, and the sends, leave the coroutine.
\*  audit_group_and_kick: the try of lines 1029-1060 is never entered (line 1026
\*    raises first), so every exception leaves the function; weekly_audit_job
\*    catches it per grant (lines 1067-1072), auditnow_cmd does not.
Raise(r) ==
    CASE r.kind = "auditfull" /\ r.pc = "ban"
            -> [r EXCEPT !.pc = "af_loop", !.clean = FALSE, !.seen = @ \cup {r.uid}]
      [] r.kind = "auditfull" /\ r.pc \in {"unban", "mark"}
            -> [r EXCEPT !.pc = "af_loop", !.seen = @ \cup {r.uid}]
      [] r.kind = "auditfull" /\ \/ r.pc \in {"af_check", "af_recheck"}
                                 \/ /\ r.pc \in {"ev", "ev_refresh", "ev_write"}
                                    /\ r.site = "af_retry"
            -> [r EXCEPT !.pc = "af_loop", !.clean = FALSE, !.seen = @ \cup {r.uid},
                         !.unknown = @ \cup {r.uid}]
      [] r.kind = "weekly"
            -> [r EXCEPT !.pc = "wk_next", !.clean = FALSE,
                         !.failedGrants = @ \cup {r.b.bid}]
      [] r.kind \in {"checkme", "linkcheck"}
           /\ \/ r.pc = "cn_check"
              \/ r.pc \in {"ev", "ev_refresh", "ev_write"} /\ r.site = "cn_token"
            -> [r EXCEPT !.pc = "cn_error", !.clean = FALSE]
      [] OTHER -> [r EXCEPT !.pc = "failed", !.clean = FALSE]

\* Where ensure_valid_broadcaster_token returns to.
ReturnPc(site) == CASE site = "af_token" -> "af_loop"
                    [] site = "af_retry" -> "af_recheck"
                    [] site = "agk_token" -> "agk_loop"
                    [] site = "cn_token" -> "cn_check"
                    [] site = "cn_retry" -> "cn_recheck"
                    [] OTHER -> "done"

\* ------------------------------------- ensure_valid_broadcaster_token steps
\* lines 577-584: the validity test and, when it fails, the refresh request
EnsureValidStart(p) ==
    /\ proc[p].pc = "ev"
    /\ LET r == proc[p] IN
       proc' = [proc EXCEPT ![p] =
           IF TokenFresh(r.evrow, now)
           THEN [r EXCEPT !.pc = ReturnPc(r.site), !.access = r.evrow.access,
                          !.ev = "fresh", !.evT = now, !.calls = 0, !.writes = 0]
           ELSE [r EXCEPT !.pc = "ev_refresh", !.ev = "stale", !.evT = now,
                          !.calls = 0, !.writes = 0]]
    /\ UNCHANGED <<now, store, world, broadcaster_token, nextTok, ticks, hist, linkstate>>

\* lines 584-587: the token endpoint answers 200 with a token body. The endpoint
\* never accepts an empty refresh token.
EnsureValidResponse(p) ==
    /\ proc[p].pc = "ev_refresh"
    /\ proc[p].evrow.refresh # 0
    /\ nextTok <= MaxTok
    /\ \E resp \in TokenResponses :
         proc' = [proc EXCEPT ![p].pc = "ev_write",
                              ![p].pending = Refreshed(proc[p].evrow, resp, now),
                              ![p].resp = resp, ![p].respT = now,
                              ![p].calls = @ + 1]
    /\ nextTok' = nextTok + 1
    /\ UNCHANGED <<now, store, world, broadcaster_token, ticks, hist, linkstate>>

\* lines 387-388: raise_for_status / transport error: twitch_refresh_token raises
EnsureValidRefreshFails(p) ==
    /\ proc[p].pc = "ev_refresh"
    /\ proc' = [proc EXCEPT ![p] = [Raise(proc[p]) EXCEPT !.ev = "failed",
                                                          !.calls = @ + 1]]
    /\ UNCHANGED <<now, store, world, broadcaster_token, nextTok, ticks, hist, linkstate>>

\* lines 588-592: the UPDATE, then return (access, broadcaster_id)
EnsureValidWrite(p) ==
    /\ proc[p].pc = "ev_write"
    /\ LET r == proc[p] IN
       /\ broadcasters' = WriteTokens(broadcasters, r.evrow.bid, r.pending)
       /\ proc' = [proc EXCEPT ![p] =
              [r EXCEPT !.pc = ReturnPc(r.site), !.access = r.pending.access,
                        !.ev = "refreshed", !.writes = @ + 1]]
    /\ UNCHANGED <<now, linked_twitch_id, links, group_members, privileged, world,
                   broadcaster_token, nextTok, ticks, hist, linkstate>>

\* lines 588-591: db_execute raises (the statement is not applied)
EnsureValidWriteFails(p) ==
    /\ proc[p].pc = "ev_write"
    /\ proc' = [proc EXCEPT ![p] = [Raise(proc[p]) EXCEPT !.ev = "failed"]]
    /\ UNCHANGED <<now, store, world, broadcaster_token, nextTok, ticks, hist, linkstate>>

\* ------------------------------------------------- callers of ensure_valid
\* SELECT * FROM broadcasters ORDER BY token_obtained_at DESC LIMIT 1
LatestOfAll ==
    {b \in BIds : /\ broadcasters[b].bid # 0
                  /\ \A c \in BIds : broadcasters[c].bid # 0
                                       => broadcasters[c].obtained <= broadcasters[b].obtained}

\* lines 507-516 / 735-739: a handler reads the grant row and hands it to
\* check_and_notify_subscription, which opens with ensure_valid (line 610)
TokenRead(p) ==
    /\ proc[p].pc = "idle"
    /\ \E bid \in LatestOfAll :
         proc' = [proc EXCEPT ![p] = [Idle EXCEPT !.kind = "check", !.pc = "ev",
                                                  !.site = "caller",
                                                  !.b = broadcasters[bid],
                                                  !.evrow = broadcasters[bid]]]
    /\ UNCHANGED <<now, store, world, broadcaster_token, nextTok, ticks, hist, linkstate>>

\* bot.py get_valid_broadcaster_token, lines 85-94 (a synchronous function): o is
\* what the token endpoint does if it is asked
GetValidBroadcasterToken(p, o) ==
    /\ proc[p].pc = "idle"
    /\ broadcaster_token.bid # 0
    /\ LET row == broadcaster_token
           r == [Idle EXCEPT !.kind = "bot", !.evT = now,
                             !.evrow = [NoRow EXCEPT !.bid = row.bid,
                                                     !.access = row.access,
                                                     !.refresh = row.refresh,
                                                     !.obtained = row.obtained,
                                                     !.ttl = row.ttl]]
       IN IF now < row.expires_at
          THEN /\ o = "none"
               /\ proc' = [proc EXCEPT ![p] = [r EXCEPT !.pc = "done", !.ev = "fresh",
                                                        !.access = row.access]]
               /\ UNCHANGED <<broadcaster_token, nextTok>>
          ELSE \/ /\ o = "error"
                  /\ proc' = [proc EXCEPT ![p] = [r EXCEPT !.pc = "failed",
                                                           !.ev = "failed", !.calls = 1]]
                  /\ UNCHANGED <<broadcaster_token, nextTok>>
               \/ /\ o = "ok"
                  /\ row.refresh # 0
                  /\ nextTok <= MaxTok
                  /\ \E resp \in TokenResponses :
                       /\ broadcaster_token' =
                              SaveBroadcasterTokens(row.bid, resp.access,
                                                    RefreshOf(row, resp), ExpiresIn(resp), now)
                       /\ proc' = [proc EXCEPT ![p] =
                              [r EXCEPT !.pc = "done", !.ev = "refreshed", !.calls = 1,
                                        !.writes = 1, !.access = resp.access,
                                        !.resp = resp, !.respT = now]]
                  /\ nextTok' = nextTok + 1
    /\ UNCHANGED <<now, store, world, ticks, hist, linkstate>>

\* ------------------------------------------------------------ the tables
Row(g, u) == <<g, u>>

\* (mutant of LatestGrants: no ORDER BY, any grant of the owner)
AnyGrantOf(u) == {b \in BIds : broadcasters[b].bid # 0 /\ broadcasters[b].owner = u}
\* SELECT * FROM broadcasters WHERE owner_telegram_id=? ORDER BY token_obtained_at
\* DESC LIMIT 1  (a tie is broken arbitrarily)
LatestGrants(u) ==
    {b \in BIds : /\ broadcasters[b].bid # 0
                  /\ broadcasters[b].owner = u
                  /\ \A c \in BIds : (broadcasters[c].bid # 0 /\ broadcasters[c].owner = u)
                                       => broadcasters[c].obtained <= broadcasters[b].obtained}

\* SELECT * FROM broadcasters WHERE group_id=? LIMIT 1
GrantsOfGroup(g) == {b \in BIds : broadcasters[b].bid # 0 /\ broadcasters[b].group = g}

\* SELECT gm.telegram_id ... WHERE gm.group_id=? AND gm.left_at IS NULL
CurrentMembers(g) == {u \in Users : group_members[Row(g, u)] = "in"}

\* auditfull_cmd lines 786-792: seen in the group, ran /start, or has a link
Candidates(g) == CurrentMembers(g) \cup {u \in Users : linked_twitch_id[u] # -1}
                                  \cup {l[1] : l \in links}

\* is_privileged(group_id, user_id)
IsPrivileged(g, u) == Row(g, u) \in privileged

\* row["linked_twitch_id"] if row else None
TwId(u) == IF linked_twitch_id[u] = -1 THEN 0 ELSE linked_twitch_id[u]

\* UPDATE group_members SET left_at=? WHERE group_id=? AND telegram_id=?
MarkLeft(tbl, g, u) == IF tbl[Row(g, u)] = "none" THEN tbl
                       ELSE [tbl EXCEPT ![Row(g, u)] = "left"]

\* ------------------------------------------- audit_group_and_kick (shared)
\* lines 1003-1020: the group's current rows, then the call of ensure_valid.
\* The records the calling handler r may be in when it next awaits.
AgkEntered(r, b) ==
    LET rows == CurrentMembers(b.group)
        r0 == [r EXCEPT !.b = b, !.kicked = 0, !.enum = rows, !.seen = {},
                        !.bans = {}, !.privbans = {}, !.marks = {}, !.counted = {},
                        !.refused = {}]
    IN IF b.group = 0 \/ rows = {}
       THEN {[r0 EXCEPT !.pc = IF r.kind = "weekly" THEN "wk_send" ELSE "an_reply"]}
       ELSE {[r0 EXCEPT !.pc = "ev", !.site = "agk_token", !.evrow = b, !.todo = s]
                : s \in Perms(rows)}

\* line 1026, first iteration: is_privileged(chat.id, uid) names two variables
\* that audit_group_and_kick never binds: NameError, outside the try.
AgkLoop(p) ==
    /\ proc[p].pc = "agk_loop"
    /\ proc' = [proc EXCEPT ![p] =
           Raise([proc[p] EXCEPT !.uid = Head(proc[p].todo),
                                 !.seen = @ \cup {Head(proc[p].todo)}])]
    /\ UNCHANGED <<now, store, world, broadcaster_token, nextTok, ticks, hist, linkstate>>

\* ------------------------------------------------------------ auditnow_cmd
\* lines 742-747
AuditnowStart(p, u) ==
    /\ \A q \in Procs : Free(q)
    /\ LET r == [Idle EXCEPT !.kind = "auditnow", !.chat = u] IN
       IF LatestGrants(u) = {}
       THEN proc' = [proc EXCEPT ![p] = [r EXCEPT !.pc = "done"]]
       ELSE \E bid \in LatestGrants(u) :
              IF broadcasters[bid].group = 0
              THEN proc' = [proc EXCEPT ![p] = [r EXCEPT !.pc = "done"]]
              ELSE \E r1 \in AgkEntered(r, broadcasters[bid]) :
                     proc' = [proc EXCEPT ![p] = r1]
    /\ UNCHANGED <<now, store, world, broadcaster_token, nextTok, ticks, hist, linkstate>>

\* line 748: reply_text("Auditoria completada. Expulsados: {kicked}")
AuditnowReply(p) ==
    /\ proc[p].pc = "an_reply"
    /\ proc' = [proc EXCEPT ![p].pc = "done", ![p].reported = proc[p].kicked]
    /\ UNCHANGED <<now, store, world, broadcaster_token, nextTok, ticks, hist, linkstate>>

\* -------------------------------------------------------- weekly_audit_job
\* line 1065: SELECT * FROM broadcasters WHERE group_id IS NOT NULL
WeeklyStart(p) ==
    /\ \A q \in Procs : Free(q)
    /\ \E s \in Perms({broadcasters[b] : b \in {c \in BIds : broadcasters[c].bid # 0
                                                      /\ broadcasters[c].group # 0}}) :
         proc' = [proc EXCEPT ![p] = [Idle EXCEPT !.kind = "weekly", !.pc = "wk_next",
                                                  !.grants = s]]
    /\ UNCHANGED <<now, store, world, broadcaster_token, nextTok, ticks, hist, linkstate>>

\* lines 1066-1068: the next grant of the list, into audit_group_and_kick
WeeklyNext(p) ==
    /\ proc[p].pc = "wk_next"
    /\ proc[p].grants # <<>>
    /\ LET r == proc[p]
           b == Head(r.grants)
       IN \E r1 \in AgkEntered([r EXCEPT !.grants = Tail(r.grants),
                                         !.swept = @ \cup {b.bid}], b) :
            proc' = [proc EXCEPT ![p] = r1]
    /\ UNCHANGED <<now, store, world, broadcaster_token, nextTok, ticks, hist, linkstate>>

\* the for loop of line 1066 is exhausted
WeeklyDone(p) ==
    /\ proc[p].pc = "wk_next"
    /\ proc[p].grants = <<>>
    /\ proc' = [proc EXCEPT ![p].pc = "done"]
    /\ UNCHANGED <<now, store, world, broadcaster_token, nextTok, ticks, hist, linkstate>>

\* lines 1069-1070: the count goes to the owner
WeeklySend(p) ==
    /\ proc[p].pc = "wk_send"
    /\ proc' = [proc EXCEPT ![p].pc = "wk_next", ![p].reported = proc[p].kicked]
    /\ UNCHANGED <<now, store, world, broadcaster_token, nextTok, ticks, hist, linkstate>>

\* lines 1070-1072: send_message raises, the except of the job logs it
WeeklySendFails(p) ==
    /\ proc[p].pc = "wk_send"
    /\ proc' = [proc EXCEPT ![p] = Raise(proc[p])]
    /\ UNCHANGED <<now, store, world, broadcaster_token, nextTok, ticks, hist, linkstate>>

\* ----------------------------------------------------------- auditfull_cmd
\* once the candidates are filtered: line 811, ensure_valid_broadcaster_token(b)
AfterFilter(r) == IF r.todo = <<>>
                  THEN [r EXCEPT !.pc = "ev", !.site = "af_token", !.evrow = r.b]
                  ELSE r

\* lines 774-792: the chat type, the grant bound to this group, the candidates.
\* u is the sender of the command; the handler never reads it (by is a record).
AuditfullEnter(p, chat, u) ==
    /\ LET r == [Idle EXCEPT !.kind = "auditfull", !.chat = chat, !.by = u] IN
       IF chat \notin Groups \/ GrantsOfGroup(chat) = {}
       THEN proc' = [proc EXCEPT ![p] = [r EXCEPT !.pc = "done"]]
       ELSE \E bid \in GrantsOfGroup(chat) : \E s \in Perms(Candidates(chat)) :
              proc' = [proc EXCEPT ![p] =
                  AfterFilter([r EXCEPT !.pc = "af_filter", !.b = broadcasters[bid],
                                        !.todo = s, !.enum = Candidates(chat)])]
    /\ UNCHANGED <<now, store, world, broadcaster_token, nextTok, ticks, hist, linkstate>>

\* the handler starts while no other handler is running
AuditfullStartBy(p, chat, u) == (\A q \in Procs : Free(q)) /\ AuditfullEnter(p, chat, u)

\* main line 1102, concurrent_updates(True): the handler starts as a task of
\* its own, whatever the other handlers are doing
AuditfullDispatch(p, chat) == Free(p) /\ AuditfullEnter(p, chat, 0)

\* the same with the sender left unrecorded
AuditfullStart(p, chat) == AuditfullStartBy(p, chat, 0)

\* (mutant of PresentStatuses: nobody is filtered out)
EveryStatus == {"member", "administrator", "left", "kicked"}
\* ChatMemberStatus values that count as present (lines 799-804)
PresentStatuses == {"member", "administrator"}

\* lines 796-808: get_chat_member for one candidate. o is what the Bot API does:
\* it answers, raises BadRequest, or raises another TelegramError.
AuditfullFilter(p, o) ==
    /\ proc[p].pc = "af_filter"
    /\ LET r == proc[p]
           uid == Head(r.todo)
           rest == [r EXCEPT !.todo = Tail(r.todo)]
       IN proc' = [proc EXCEPT ![p] =
            CASE o = "ok" /\ status[Row(r.chat, uid)] \in PresentStatuses
                   -> AfterFilter([rest EXCEPT !.present = Append(@, uid)])
              [] o = "ok" /\ status[Row(r.chat, uid)] \notin PresentStatuses
                   -> AfterFilter([rest EXCEPT !.seen = @ \cup {uid}])
              [] o = "badrequest"
                   -> AfterFilter([rest EXCEPT !.seen = @ \cup {uid}, !.clean = FALSE])
              [] OTHER -> Raise([r EXCEPT !.seen = @ \cup {uid}])]
    /\ UNCHANGED <<now, store, world, broadcaster_token, nextTok, ticks, hist, linkstate>>

\* (mutant of SkippedStatuses: nobody is skipped)
NobodySkipped == {}
\* lines 816-817: ChatMemberStatus.ADMINISTRATOR and OWNER, for which the model
\* has the one status "administrator"
SkippedStatuses == {"administrator"}

\* lines 813-823: the next present member: its live status again, then its link
AuditfullLoop(p, o) ==
    /\ proc[p].pc = "af_loop"
    /\ proc[p].present # <<>>
    /\ LET r == proc[p]
           uid == Head(r.present)
           rest == [r EXCEPT !.present = Tail(r.present), !.uid = uid]
       IN proc' = [proc EXCEPT ![p] =
            CASE o = "ok" /\ status[Row(r.chat, uid)] \in SkippedStatuses
                   -> [rest EXCEPT !.seen = @ \cup {uid}]
              [] o = "ok" /\ status[Row(r.chat, uid)] \notin SkippedStatuses
                   -> [rest EXCEPT !.tw = TwId(uid),
                                   !.pc = IF TwId(uid) = 0 THEN "ban" ELSE "af_check"]
              [] o = "badrequest"
                   -> [rest EXCEPT !.seen = @ \cup {uid}, !.clean = FALSE]
              [] OTHER -> Raise([r EXCEPT !.seen = @ \cup {uid}])]
    /\ UNCHANGED <<now, store, world, broadcaster_token, nextTok, ticks, hist, linkstate>>

\* line 854: the loop is over, the count goes to the chat
AuditfullReply(p) ==
    /\ proc[p].pc = "af_loop"
    /\ proc[p].present = <<>>
    /\ proc' = [proc EXCEPT ![p].pc = "done", ![p].reported = proc[p].kicked]
    /\ UNCHANGED <<now, store, world, broadcaster_token, nextTok, ticks, hist, linkstate>>

\* twitch_check_subscription (lines 406-415): what one call can do for twitch id
\* t: a definite answer, PermissionError on 401, or raise_for_status / transport.
CheckOutcomes(t) == {IF t \in subscribed THEN "sub" ELSE "notsub",
                     "unauthorized", "unavailable"}

\* (mutants of AfterCheck: a subscriber is removed; an unanswered check removes)
SubscribedIsBanned(o) == CASE o \in {"sub", "notsub"} -> "ban"
                           [] o = "unauthorized" -> "ev"
                           [] OTHER -> "raise"
UnavailableIsBanned(o) == CASE o = "sub" -> "af_loop"
                            [] o = "unauthorized" -> "ev"
                            [] OTHER -> "ban"
\* lines 836-849: where the first check of a linked member leads: ok is left in
\* place, not ok goes to the ban, 401 goes to the refresh and retry
AfterCheck(o) == CASE o = "sub" -> "af_loop"
                   [] o = "notsub" -> "ban"
                   [] o = "unauthorized" -> "ev"
                   [] OTHER -> "raise"

\* line 842: the retried check; whatever it raises reaches the outer except
AfterRecheck(o) == CASE o = "sub" -> "af_loop"
                     [] o = "notsub" -> "ban"
                     [] OTHER -> "raise"

\* the handler after a subscription check that led to pc "to"
Checked(r, to) ==
    CASE to = "raise" -> Raise(r)
      [] to = "af_loop" -> [r EXCEPT !.pc = "af_loop", !.seen = @ \cup {r.uid}]
      [] to = "ev" -> [r EXCEPT !.pc = "ev", !.site = "af_retry",
                                !.evrow = broadcasters[r.b.bid]]
      [] OTHER -> [r EXCEPT !.pc = "ban"]

\* the record of what the oracle said about the member in hand: it answered
\* "subscribed" (kept), or the check ended without an answer (unknown)
Noted(r, uid, answered, failed) ==
    [r EXCEPT !.kept = IF answered THEN @ \cup {uid} ELSE @,
              !.unknown = IF failed THEN @ \cup {uid} ELSE @]

\* lines 836-841
AuditfullCheck(p, o) ==
    /\ proc[p].pc = "af_check"
    /\ o \in CheckOutcomes(proc[p].tw)
    /\ proc' = [proc EXCEPT ![p] = Noted(Checked(proc[p], AfterCheck(o)), proc[p].uid,
                                         o = "sub", o = "unavailable")]
    /\ UNCHANGED <<now, store, world, broadcaster_token, nextTok, ticks, hist, linkstate>>

\* line 842
AuditfullRecheck(p, o) ==
    /\ proc[p].pc = "af_recheck"
    /\ o \in CheckOutcomes(proc[p].tw)
    /\ proc' = [proc EXCEPT ![p] = Noted(Checked(proc[p], AfterRecheck(o)), proc[p].uid,
                                         o = "sub", o \in {"unavailable", "unauthorized"})]
    /\ UNCHANGED <<now, store, world, broadcaster_token, nextTok, ticks, hist, linkstate>>

\* lines 828 / 845: ban_chat_member(until_date = now + 35) takes effect
Ban(p) ==
    /\ proc[p].pc = "ban"
    /\ LET r == proc[p] IN
       /\ status[Row(r.chat, r.uid)] # "administrator"
       /\ status' = [status EXCEPT ![Row(r.chat, r.uid)] = "kicked"]
       /\ proc' = [proc EXCEPT ![p].pc = "unban",
                               ![p].bans = @ \cup {r.uid},
                               ![p].privbans = IF IsPrivileged(r.chat, r.uid)
                                               THEN @ \cup {r.uid} ELSE @]
    /\ UNCHANGED <<now, store, subscribed, broadcaster_token, nextTok, ticks, hist, linkstate>>

\* (mutant of Unban: the call returns and the ban stays)
UnbanKeepsBan(p) ==
    /\ proc[p].pc = "unban"
    /\ proc' = [proc EXCEPT ![p].pc = "mark"]
    /\ UNCHANGED <<now, store, world, broadcaster_token, nextTok, ticks, hist, linkstate>>
\* lines 829 / 846: unban_chat_member(only_if_banned=True) lifts the ban
Unban(p) ==
    /\ proc[p].pc = "unban"
    /\ LET r == proc[p] IN
       /\ status' = [status EXCEPT ![Row(r.chat, r.uid)] =
                        IF @ = "kicked" THEN "left" ELSE @]
       /\ proc' = [proc EXCEPT ![p].pc = "mark"]
    /\ UNCHANGED <<now, store, subscribed, broadcaster_token, nextTok, ticks, hist, linkstate>>

\* lines 830-833 / 847-849: the membership row, then kicked += 1
Mark(p) ==
    /\ proc[p].pc = "mark"
    /\ LET r == proc[p] IN
       /\ group_members' = MarkLeft(group_members, r.chat, r.uid)
       /\ proc' = [proc EXCEPT ![p].pc = "af_loop",
                               ![p].kicked = @ + 1,
                               ![p].counted = @ \cup {r.uid},
                               ![p].seen = @ \cup {r.uid},
                               ![p].marks = IF group_members[Row(r.chat, r.uid)] = "none"
                                            THEN @ ELSE @ \cup {r.uid}]
    /\ UNCHANGED <<now, broadcasters, linked_twitch_id, links, privileged, world,
                   broadcaster_token, nextTok, ticks, hist, linkstate>>

\* the Bot API call or the UPDATE of the removal raises: "except Exception:
\* continue" (lines 850-852)
RemovalFails(p) ==
    /\ proc[p].pc \in {"ban", "unban", "mark"}
    /\ proc' = [proc EXCEPT ![p] =
           [Raise(proc[p]) EXCEPT !.refused = IF proc[p].pc = "mark" THEN @
                                              ELSE @ \cup {proc[p].uid}]]
    /\ UNCHANGED <<now, store, world, broadcaster_token, nextTok, ticks, hist, linkstate>>

\* ------------------------------------------------------------ environment
\* a subscription starts or lapses on Twitch
SubscriptionChange(t) ==
    /\ subscribed' = IF t \in subscribed THEN subscribed \ {t} ELSE subscribed \cup {t}
    /\ hist' = [hist EXCEPT !.quiet = FALSE]
    /\ UNCHANGED <<now, store, status, broadcaster_token, proc, nextTok, ticks, linkstate>>

\* time passes
Tick(d) ==
    /\ ticks < MaxTicks
    /\ now' = now + d
    /\ ticks' = ticks + 1
    /\ UNCHANGED <<store, world, broadcaster_token, proc, nextTok, hist, linkstate>>

\* ------------------------------------------------- the sweeps, one at a time
\* What the store and the group may look like when a sweep is invoked: grant 1 is
\* bound to group 1 and owned by chat identity 1, grant 2 (owner 2) has no group
\* yet. Every chat identity is, independently, present / administrator / gone,
\* recorded in group_members or not, privileged or not, and unknown to the bot /
\* unlinked / linked.
\* link: -1 never ran /start, 0 unlinked, 1 linked and subscribed, 2 linked and
\* not subscribed.
Profiles == [status : {"member", "administrator", "left"},
             gm : {"in", "none"},
             priv : BOOLEAN,
             link : {-1, 0, 1, 2}]

\* group 1 and the bot's tables for it, each chat identity as its profile says
World(prof) ==
    /\ status = [k \in Groups \X Users |->
                   IF k[1] = 1 THEN prof[k[2]].status ELSE "left"]
    /\ group_members = [k \in Groups \X Users |->
                   IF k[1] = 1 THEN prof[k[2]].gm ELSE "none"]
    /\ privileged = {k \in Groups \X Users : k[1] = 1 /\ prof[k[2]].priv}
    /\ linked_twitch_id = [u \in Users |->
                   IF prof[u].link >= 1 THEN TwitchId(u) ELSE prof[u].link]
    /\ links = {<<u, TwitchId(u)>> : u \in {v \in Users : prof[v].link >= 1}}
    /\ subscribed = {TwitchId(u) : u \in {v \in Users : prof[v].link = 1}}

\* the invite link create_chat_invite_link hands out for a group (0: none)
InviteOf(group) == IF group = 0 THEN 0 ELSE 200 + group

\* a link create_chat_invite_link hands out on a later call for the group: every
\* call makes a new link, never one handed out before
NewInvite(group) == IF group = 0 THEN 0 ELSE 300 + group

GrantRow(bid, owner, group) ==
    [bid |-> bid, owner |-> owner, access |-> 100 + bid, refresh |-> 100 + bid,
     obtained |-> 0, ttl |-> DefaultExpiresIn, group |-> group,
     invite |-> InviteOf(group)]

\* the answer to a callback request: the HTTP status, and whether the handler
\* asked Twitch to exchange the code before it answered
NoReply == [status |-> 0, exchanged |-> FALSE]
Answer(code, exchanged) == [status |-> code, exchanged |-> exchanged]

NoState == [purpose |-> "none", telegram_id |-> 0]

InitCommon ==
    /\ oauth_states = [s \in StateValues |-> NoState]
    /\ twitch_users = {}
    /\ bot_users = [u \in Users |-> 0]
    /\ sent = {}
    /\ minted = {}
    /\ honored = [k \in {"user", "setup"} \X StateValues |-> 0]
    /\ reply = NoReply
    /\ ticks = 0
    /\ hist = [last |-> NoSummary, quiet |-> TRUE]
    /\ proc = [p \in Procs |-> Idle]

InitSweep ==
    /\ InitCommon
    /\ broadcaster_token = NoBotRow
    /\ nextTok = MaxTok
    /\ now \in {0, DefaultExpiresIn - Margin}
    /\ broadcasters = [b \in BIds |-> IF b = 1 THEN GrantRow(1, 1, 1)
                                               ELSE GrantRow(b, 2, 0)]
    /\ \E prof \in [Users -> Profiles] : World(prof)

GetChatMemberOutcomes == {"ok", "badrequest", "error"}

NextSweep ==
    \/ \E u \in Users : AuditnowStart(1, u)
    \/ AuditnowReply(1)
    \/ AgkLoop(1)
    \/ WeeklyStart(1)
    \/ WeeklyNext(1)
    \/ WeeklyDone(1)
    \/ WeeklySend(1)
    \/ WeeklySendFails(1)
    \/ \E chat \in Groups \cup {0} : AuditfullStart(1, chat)
    \/ \E o \in GetChatMemberOutcomes : AuditfullFilter(1, o)
    \/ \E o \in GetChatMemberOutcomes : AuditfullLoop(1, o)
    \/ AuditfullReply(1)
    \/ \E o \in {"sub", "notsub", "unauthorized", "unavailable"} : AuditfullCheck(1, o)
    \/ \E o \in {"sub", "notsub", "unauthorized", "unavailable"} : AuditfullRecheck(1, o)
    \/ Ban(1)
    \/ Unban(1)
    \/ Mark(1)
    \/ RemovalFails(1)
    \/ EnsureValidStart(1)
    \/ EnsureValidResponse(1)
    \/ EnsureValidRefreshFails(1)
    \/ EnsureValidWrite(1)
    \/ EnsureValidWriteFails(1)

SpecSweep == InitSweep /\ [][NextSweep]_vars

\* ------------------------------------------------- the token manager alone
\* two grants, the first possibly stored without a refresh token (the setup
\* callback stores "" when the exchange returned none); bot.py's one row
InitToken ==
    /\ InitCommon
    /\ nextTok = 1
    /\ now = 0
    /\ \E rf \in {0, 101} :
         broadcasters = [b \in BIds |->
             IF b = 1 THEN [GrantRow(1, 1, 1) EXCEPT !.refresh = rf]
             ELSE GrantRow(b, 2, 0)]
    /\ broadcaster_token = SaveBroadcasterTokens(9, 109, 109, DefaultExpiresIn, 0)
    /\ \E prof \in [Users -> [status : {"member"}, gm : {"in"}, priv : {FALSE},
                                link : {0}]] : World(prof)

NextToken ==
    \/ \E p \in Procs : TokenRead(p)
    \/ \E p \in Procs : \E o \in {"none", "ok", "error"} : GetValidBroadcasterToken(p, o)
    \/ \E p \in Procs : EnsureValidStart(p)
    \/ \E p \in Procs : EnsureValidResponse(p)
    \/ \E p \in Procs : EnsureValidRefreshFails(p)
    \/ \E p \in Procs : EnsureValidWrite(p)
    \/ \E p \in Procs : EnsureValidWriteFails(p)
    \/ \E d \in TickSteps : Tick(d)

SpecToken == InitToken /\ [][NextToken]_vars

\* ------------------------------------------- the weekly job over two grants
\* both grants are bound, each to its own group; any set of recorded members
InitWeekly ==
    /\ InitCommon
    /\ broadcaster_token = NoBotRow
    /\ nextTok = 1
    /\ now \in {0, DefaultExpiresIn - Margin}
    /\ \E e \in ExpiresInValues :
         broadcasters = [b \in BIds |->
             IF b = 1 THEN GrantRow(1, 1, 1)
             ELSE [GrantRow(b, 2, 2) EXCEPT !.ttl = ExpiresIn([expires_in |-> e])]]
    /\ group_members \in [Groups \X Users -> {"in", "none"}]
    /\ status = [k \in Groups \X Users |->
                   IF group_members[k] = "in" THEN "member" ELSE "left"]
    /\ privileged \in SUBSET {Row(1, 1)}
    /\ linked_twitch_id = [u \in Users |-> 0]
    /\ links = {}
    /\ subscribed = {}

NextWeekly ==
    \/ WeeklyStart(1)
    \/ WeeklyNext(1)
    \/ WeeklyDone(1)
    \/ WeeklySend(1)
    \/ WeeklySendFails(1)
    \/ AgkLoop(1)
    \/ EnsureValidStart(1)
    \/ EnsureValidResponse(1)
    \/ EnsureValidRefreshFails(1)
    \/ EnsureValidWrite(1)
    \/ EnsureValidWriteFails(1)

SpecWeekly == InitWeekly /\ [][NextWeekly]_vars

\* ------------------------------------------- the same sweep twice in a row
\* the handler has returned (or raised) and is invoked once more
Again(p) ==
    /\ proc[p].pc \in {"done", "failed"}
    /\ hist.last.kind = "idle"
    /\ proc' = [proc EXCEPT ![p] = Idle]
    /\ hist' = Archive(p)
    /\ UNCHANGED <<now, store, world, broadcaster_token, nextTok, ticks, linkstate>>

TwiceProfiles == [status : {"member", "administrator"},
                  gm : {"in"},
                  priv : {FALSE},
                  link : {0, 1, 2}]

InitTwice ==
    /\ InitCommon
    /\ broadcaster_token = NoBotRow
    /\ nextTok = MaxTok
    /\ now \in {0, DefaultExpiresIn - Margin}
    /\ broadcasters = [b \in BIds |-> IF b = 1 THEN GrantRow(1, 1, 1)
                                               ELSE GrantRow(b, 2, 0)]
    /\ \E prof \in [Users -> TwiceProfiles] : World(prof)

NextTwice ==
    \/ NextSweep
    \/ Again(1)
    \/ \E u \in Users : SubscriptionChange(TwitchId(u))

SpecTwice == InitTwice /\ [][NextTwice]_vars

\* ------------------------------------- check_and_notify_subscription flow
\* send_message to a private chat took effect
Send(chat, kind, payload) == sent \cup {<<chat, kind, payload>>}

\* check_and_notify_subscription is entered for chat identity u, twitch id tw
\* and grant row b: it opens with ensure_valid_broadcaster_token (line 610)
CnEntered(kind, u, tw, b) ==
    [Idle EXCEPT !.kind = kind, !.pc = "ev", !.site = "cn_token", !.chat = u,
                 !.tw = tw, !.b = b, !.evrow = b]

\* checkme_cmd lines 730-739. The two early replies are not recorded.
CheckmeStart(p, u) ==
    /\ proc[p].pc = "idle"
    /\ IF TwId(u) = 0 \/ LatestOfAll = {}
       THEN proc' = [proc EXCEPT ![p] = [Idle EXCEPT !.kind = "checkme", !.pc = "done",
                                                     !.chat = u]]
       ELSE \E bid \in LatestOfAll :
              proc' = [proc EXCEPT ![p] = CnEntered("checkme", u, TwId(u), broadcasters[bid])]
    /\ UNCHANGED <<now, store, world, broadcaster_token, nextTok, ticks, hist, linkstate>>

\* lines 611-614: where the first check leads: an answer goes on to the
\* notification, 401 to the PermissionError handler, anything else to the
\* "except Exception" of line 615
AfterFirstCheck(o) == CASE o \in {"sub", "notsub"} -> "cn_notify"
                        [] o = "unauthorized" -> "ev"
                        [] OTHER -> "raise"

\* line 611: twitch_check_subscription returns or raises
CnCheck(p, o) ==
    /\ proc[p].pc = "cn_check"
    /\ o \in CheckOutcomes(proc[p].tw)
    /\ LET r == [proc[p] EXCEPT !.checks = @ + 1]
           to == AfterFirstCheck(o)
       IN proc' = [proc EXCEPT ![p] =
            CASE to = "cn_notify" -> [r EXCEPT !.pc = "cn_notify", !.answer = o]
              [] to = "ev" -> [r EXCEPT !.pc = "ev", !.site = "cn_retry", !.reread = TRUE,
                                        !.b = broadcasters[r.b.bid],
                                        !.evrow = broadcasters[r.b.bid]]
              [] OTHER -> Raise(r)]
    /\ UNCHANGED <<now, store, world, broadcaster_token, nextTok, ticks, hist, linkstate>>

\* line 614: the retried check; whatever it raises leaves the coroutine
CnRecheck(p, o) ==
    /\ proc[p].pc = "cn_recheck"
    /\ o \in CheckOutcomes(proc[p].tw)
    /\ LET r == [proc[p] EXCEPT !.checks = @ + 1] IN
       proc' = [proc EXCEPT ![p] =
            IF o \in {"sub", "notsub"} THEN [r EXCEPT !.pc = "cn_notify", !.answer = o]
            ELSE Raise(r)]
    /\ UNCHANGED <<now, store, world, broadcaster_token, nextTok, ticks, hist, linkstate>>

\* (mutant of CreateOrGetInviteLink: the cached link is not looked at and no
\* link is created)
NeverALink(row, created) == 0
\* create_or_get_invite_link lines 594-606: no group, the cached link, or a new
\* link (created = 0: create_chat_invite_link or the UPDATE raised)
CreateOrGetInviteLink(row, created) ==
    IF row.group = 0 THEN 0
    ELSE IF row.invite # 0 THEN row.invite
    ELSE created

\* (mutant of Notice: the answer of the check is not looked at)
InviteAnyway(is_sub, link) == IF link # 0 THEN <<"invite", link>> ELSE <<"wait", 0>>
\* lines 620-628: the message for the answer
Notice(is_sub, link) ==
    IF is_sub = "sub"
    THEN IF link # 0 THEN <<"invite", link>> ELSE <<"wait", 0>>
    ELSE <<"notsub", 0>>

\* lines 620-628: the notification is sent; the link is created and cached on
\* the grant first when a group is bound without one
CnNotify(p, created) ==
    /\ proc[p].pc = "cn_notify"
    /\ created \in {0, InviteOf(proc[p].b.group), NewInvite(proc[p].b.group)}
    /\ LET r == proc[p]
           link == CreateOrGetInviteLink(r.b, created)
           msg == Notice(r.answer, link)
       IN /\ sent' = Send(r.chat, msg[1], msg[2])
          /\ broadcasters' =
                IF r.answer = "sub" /\ r.b.group # 0 /\ r.b.invite = 0 /\ created # 0
                THEN [broadcasters EXCEPT ![r.b.bid].invite = created]
                ELSE broadcasters
          /\ proc' = [proc EXCEPT ![p].pc = "done"]
    /\ UNCHANGED <<now, linked_twitch_id, links, group_members, privileged, world,
                   broadcaster_token, nextTok, ticks, hist, oauth_states, twitch_users,
                   bot_users, minted, honored, reply>>

\* lines 616-618: the error message of the "except Exception" branch
CnError(p) ==
    /\ proc[p].pc = "cn_error"
    /\ sent' = Send(proc[p].chat, "error", 0)
    /\ proc' = [proc EXCEPT ![p].pc = "done"]
    /\ UNCHANGED <<now, store, world, broadcaster_token, nextTok, ticks, hist,
                   oauth_states, twitch_users, bot_users, minted, honored, reply>>

\* lines 617 / 623-628: send_message raises; nothing catches it
CnSendFails(p) ==
    /\ proc[p].pc \in {"cn_notify", "cn_error"}
    /\ proc' = [proc EXCEPT ![p] = Raise(proc[p])]
    /\ UNCHANGED <<now, store, world, broadcaster_token, nextTok, ticks, hist, linkstate>>

\* ------------------------------------------------- start, setup, setgroup
\* gen_state lines 343-345: a random value, hence one that was never used; the
\* values are interchangeable, so the first unused one stands for any of them
GenState == {st \in MintValues : /\ oauth_states[st].purpose = "none"
                                 /\ \A s \in MintValues :
                                      s < st => oauth_states[s].purpose # "none"}

\* start lines 639-671: the telegram_users row (INSERT OR IGNORE), then a new
\* state value stored with purpose user_link and put into the URL
Start(u) ==
    /\ \E st \in GenState :
         /\ oauth_states' = [oauth_states EXCEPT ![st] =
                                [purpose |-> "user_link", telegram_id |-> u]]
         /\ minted' = minted \cup {<<"user_link", st, u>>}
    /\ linked_twitch_id' = [linked_twitch_id EXCEPT ![u] = IF @ = -1 THEN 0 ELSE @]
    /\ UNCHANGED <<now, broadcasters, links, group_members, privileged, world,
                   broadcaster_token, proc, nextTok, ticks, hist, twitch_users,
                   bot_users, sent, honored, reply>>

\* setup_cmd lines 685-700: a new state value with purpose broadcaster_setup
SetupCmd(u) ==
    /\ \E st \in GenState :
         /\ oauth_states' = [oauth_states EXCEPT ![st] =
                                [purpose |-> "broadcaster_setup", telegram_id |-> u]]
         /\ minted' = minted \cup {<<"broadcaster_setup", st, u>>}
    /\ UNCHANGED <<now, store, world, broadcaster_token, proc, nextTok, ticks, hist,
                   twitch_users, bot_users, sent, honored, reply>>

\* setgroup_cmd lines 710-727, sent by u in chat g (0: not a group): the caller's
\* latest grant gets the group and a new invite link in one UPDATE (o = "fail":
\* create_chat_invite_link raised)
Setgroup(g, u, o) ==
    /\ IF g \notin Groups \/ LatestGrants(u) = {} \/ o = "fail"
       THEN UNCHANGED broadcasters
       ELSE \E bid \in LatestGrants(u) :
              broadcasters' = [broadcasters EXCEPT ![bid].group = g,
                                                   ![bid].invite = InviteOf(g)]
    /\ UNCHANGED <<now, linked_twitch_id, links, group_members, privileged, world,
                   broadcaster_token, proc, nextTok, ticks, hist, linkstate>>

\* ---------------------------------------------------- the OAuth callbacks
\* (mutant of StateAccepted: any stored state passes)
AnyStoredState(row, purpose) == row.purpose # "none"
\* lines 458-459 / 530-531: not row or row["purpose"] != purpose -> 400
StateAccepted(row, purpose) == row.purpose = purpose

\* (mutant of LinkedTo: the UPDATE of telegram_users is left out)
NotLinked(tbl, c, t) == tbl
\* lines 484-487 of twitch_callback_user: UPDATE telegram_users SET
\* linked_twitch_id = t WHERE telegram_id = c (no row, no change)
LinkedTo(tbl, c, t) == IF tbl[c] = -1 THEN tbl ELSE [tbl EXCEPT ![c] = t]

\* twitch_callback_user lines 457-516 for a request with a code and state st,
\* made by somebody who logged in at Twitch as t: what it writes and sends.
\* o: the exchange raises, the identity cannot be read, the database fails after
\* the first write ("db") or after the second ("db2": each db_execute commits on
\* its own, lines 284-294), or all goes well. p is the invocation that
\* check_and_notify_subscription becomes when the callback schedules it (lines
\* 512-516); lines 499-509 send the acknowledgement and, without any grant,
\* the notice that no channel is configured.
CallbackUserWrites(p, st, t, o) ==
    LET row == oauth_states[st]
        c == row.telegram_id
    IN IF ~StateAccepted(row, "user_link") \/ o \in {"exchange", "noself"}
       THEN UNCHANGED written
       ELSE IF o = "db"
       THEN /\ twitch_users' = twitch_users \cup {t}
            /\ UNCHANGED <<now, store, world, broadcaster_token, proc, nextTok, ticks,
                           hist, oauth_states, bot_users, sent, minted, honored>>
       ELSE IF o = "db2"
       THEN /\ twitch_users' = twitch_users \cup {t}
            /\ linked_twitch_id' = LinkedTo(linked_twitch_id, c, t)
            /\ UNCHANGED <<now, broadcasters, links, group_members, privileged, world,
                           broadcaster_token, proc, nextTok, ticks, hist, oauth_states,
                           bot_users, sent, minted, honored>>
       ELSE /\ o = "ok"
            /\ honored[<<"user", st>>] < MaxHonor
            /\ twitch_users' = twitch_users \cup {t}
            /\ linked_twitch_id' = LinkedTo(linked_twitch_id, c, t)
            /\ links' = links \cup {<<c, t>>}
            /\ honored' = [honored EXCEPT ![<<"user", st>>] = @ + 1]
            /\ IF LatestOfAll = {}
               THEN /\ sent' = sent \cup {<<c, "ack", 0>>, <<c, "nochannel", 0>>}
                    /\ UNCHANGED proc
               ELSE \E bid \in LatestOfAll :
                      /\ proc[p].pc = "idle"
                      /\ sent' = Send(c, "ack", 0)
                      /\ proc' = [proc EXCEPT ![p] =
                                    CnEntered("linkcheck", c, t, broadcasters[bid])]
            /\ UNCHANGED <<now, broadcasters, group_members, privileged, world,
                           broadcaster_token, nextTok, ticks, hist, oauth_states,
                           bot_users, minted>>

\* the same request with its answer left unrecorded
CallbackUser(p, st, t, o) == CallbackUserWrites(p, st, t, o) /\ UNCHANGED reply

\* the status twitch_callback_user / twitch_callback_setup returns once the code
\* and the state are there (lines 458-467 and 517-520 / 530-539 and 567-570);
\* the exchange is asked for at line 463 / 533, after the state test
CallbackReply(row, purpose, o) ==
    IF ~StateAccepted(row, purpose) THEN Answer(400, FALSE)
    ELSE IF o = "noself" THEN Answer(400, TRUE)
    ELSE IF o = "ok" THEN Answer(302, TRUE)
    ELSE Answer(500, TRUE)

\* twitch_callback_user lines 451-520, whole: hasCode / hasState tell whether
\* the request carries a non-empty code / state (lines 453-456)
TwitchCallbackUser(p, hasCode, hasState, st, t, o) ==
    IF ~hasCode \/ ~hasState
    THEN /\ reply' = Answer(400, FALSE)
         /\ UNCHANGED written
    ELSE /\ reply' = CallbackReply(oauth_states[st], "user_link", o)
         /\ CallbackUserWrites(p, st, t, o)

\* the body of a successful authorization-code exchange (refresh 0: key absent;
\* expires_in 0: key absent, or so short that the token is stale at once)
ExchangeResponses == {[access |-> 300, refresh |-> rf, expires_in |-> e] :
                         rf \in {0, 300}, e \in {0, Margin}}

\* (mutant of SetupUpsert: INSERT OR REPLACE with NULL group and link)
SetupReplace(tbl, bid, owner, resp, t) ==
    [tbl EXCEPT ![bid] = [bid |-> bid, owner |-> owner, access |-> resp.access,
                          refresh |-> resp.refresh, obtained |-> t,
                          ttl |-> ExpiresIn(resp), group |-> 0, invite |-> 0]]
\* lines 541-561: INSERT OR REPLACE of the grant row; refresh_token or "", and
\* group_id / invite_link taken from the row that is replaced
SetupUpsert(tbl, bid, owner, resp, t) ==
    [tbl EXCEPT ![bid] = [bid |-> bid, owner |-> owner, access |-> resp.access,
                          refresh |-> resp.refresh, obtained |-> t,
                          ttl |-> ExpiresIn(resp), group |-> tbl[bid].group,
                          invite |-> tbl[bid].invite]]

\* twitch_callback_setup lines 529-566 for a request with a code and state st,
\* by somebody logged in as channel bid: what it writes and sends (the message
\* to the owner, lines 562-565)
CallbackSetupWrites(st, bid, resp, o) ==
    LET row == oauth_states[st] IN
    IF ~StateAccepted(row, "broadcaster_setup") \/ o \in {"exchange", "noself"}
    THEN UNCHANGED written
    ELSE /\ o = "ok"
         /\ honored[<<"setup", st>>] < MaxHonor
         /\ broadcasters' = SetupUpsert(broadcasters, bid, row.telegram_id, resp, now)
         /\ honored' = [honored EXCEPT ![<<"setup", st>>] = @ + 1]
         /\ sent' = Send(row.telegram_id, "configured", 0)
         /\ UNCHANGED <<now, linked_twitch_id, links, group_members, privileged, world,
                        broadcaster_token, proc, nextTok, ticks, hist, oauth_states,
                        twitch_users, bot_users, minted>>

\* the same request with its answer left unrecorded
CallbackSetup(st, bid, resp, o) == CallbackSetupWrites(st, bid, resp, o) /\ UNCHANGED reply

\* twitch_callback_setup lines 523-570, whole
TwitchCallbackSetup(hasCode, hasState, st, bid, resp, o) ==
    IF ~hasCode \/ ~hasState
    THEN /\ reply' = Answer(400, FALSE)
         /\ UNCHANGED written
    ELSE /\ reply' = CallbackReply(oauth_states[st], "broadcaster_setup", o)
         /\ CallbackSetupWrites(st, bid, resp, o)

\* ----------------------------------------------------- bot.py: the callback
ChannelId == 9      \* TWITCH_CHANNEL_ID (environment)

\* bot.py start line 210: state = chat_id, nothing is stored
BotStart(u) ==
    /\ minted' = minted \cup {<<"bot_start", u, u>>}
    /\ UNCHANGED <<now, store, world, broadcaster_token, proc, nextTok, ticks, hist,
                   oauth_states, twitch_users, bot_users, sent, honored, reply>>

\* bot.py link_canal line 218: state = "owner:" + chat_id
BotLinkCanal(u) ==
    /\ minted' = minted \cup {<<"bot_owner", u, u>>}
    /\ UNCHANGED <<now, store, world, broadcaster_token, proc, nextTok, ticks, hist,
                   oauth_states, twitch_users, bot_users, sent, honored, reply>>

\* (mutant of BotCallbackOwnerWrites: whoever authorized, the token is stored)
OwnerUnchecked(t, resp) ==
    /\ broadcaster_token' =
           SaveBroadcasterTokens(t, resp.access, resp.refresh, ExpiresIn(resp), now)
    /\ UNCHANGED <<now, store, world, proc, nextTok, ticks, hist, oauth_states,
                   twitch_users, bot_users, sent, minted, honored>>
\* bot.py lines 153-160: the owner flow of twitch_callback, for a request whose
\* state starts with "owner:", by somebody logged in at Twitch as t
BotCallbackOwnerWrites(t, resp) ==
    /\ IF t # ChannelId \/ resp.refresh = 0
       THEN UNCHANGED broadcaster_token
       ELSE broadcaster_token' =
              SaveBroadcasterTokens(t, resp.access, resp.refresh, ExpiresIn(resp), now)
    /\ UNCHANGED <<now, store, world, proc, nextTok, ticks, hist, oauth_states,
                   twitch_users, bot_users, sent, minted, honored>>

\* the same request with its answer left unrecorded
BotCallbackOwner(t, resp) == BotCallbackOwnerWrites(t, resp) /\ UNCHANGED reply

\* bot.py lines 185-188: the text chosen from the body of the subscriptions
\* request (k = "nodata": a body without "data", e.g. an error body)
BotText(k) == IF k = "sub" THEN "bot_sub" ELSE "bot_notsub"

\* bot.py lines 162-191: the user flow of twitch_callback for a request whose
\* state is the number c, by somebody logged in at Twitch as t. o is what the
\* token endpoint does if get_valid_broadcaster_token asks it, k what the
\* subscriptions request returns.
BotCallbackUserWrites(c, t, o, k) ==
    /\ bot_users' = [bot_users EXCEPT ![c] = t]
    /\ k \in {IF t \in subscribed THEN "sub" ELSE "notsub", "nodata"}
    /\ LET row == broadcaster_token IN
       IF row.bid = 0
       THEN /\ o = "none"
            /\ sent' = Send(c, "bot_nochannel", 0)
            /\ UNCHANGED <<broadcaster_token, nextTok>>
       ELSE IF now < row.expires_at
       THEN /\ o = "none"
            /\ sent' = Send(c, BotText(k), 0)
            /\ UNCHANGED <<broadcaster_token, nextTok>>
       ELSE \/ /\ o = "error"
               /\ sent' = Send(c, "bot_nochannel", 0)
               /\ UNCHANGED <<broadcaster_token, nextTok>>
            \/ /\ o = "ok"
               /\ row.refresh # 0
               /\ nextTok <= MaxTok
               /\ \E resp \in TokenResponses :
                    broadcaster_token' =
                       SaveBroadcasterTokens(row.bid, resp.access, RefreshOf(row, resp),
                                             ExpiresIn(resp), now)
               /\ nextTok' = nextTok + 1
               /\ sent' = Send(c, BotText(k), 0)
    /\ UNCHANGED <<now, store, world, proc, ticks, hist, oauth_states, twitch_users,
                   minted, honored>>

\* the same request with its answer left unrecorded
BotCallbackUser(c, t, o, k) == BotCallbackUserWrites(c, t, o, k) /\ UNCHANGED reply

\* bot.py twitch_callback lines 109-194, whole. hasCode / hasState: the request
\* carries a non-empty code / state (lines 113-117); kind and c: what the state
\* reads as ("owner:...", the number c, or some other text, on which int() at
\* line 162 raises); x: the token endpoint and the users endpoint answer well,
\* or one of them answers with an error body (lines 130-132 / 146-148). The
\* exchange is asked for at line 119, whatever the state is.
TwitchCallback(hasCode, hasState, kind, c, t, x, resp, o, k) ==
    IF ~hasCode \/ ~hasState
    THEN /\ reply' = Answer(400, FALSE)
         /\ UNCHANGED written
    ELSE IF x # "ok"
    THEN /\ reply' = Answer(400, TRUE)
         /\ UNCHANGED written
    ELSE IF kind = "owner"
    THEN /\ reply' = Answer(IF t # ChannelId \/ resp.refresh = 0 THEN 400 ELSE 200, TRUE)
         /\ BotCallbackOwnerWrites(t, resp)
    ELSE IF kind = "text"
    THEN /\ reply' = Answer(500, TRUE)
         /\ UNCHANGED written
    ELSE /\ reply' = Answer(200, TRUE)
         /\ BotCallbackUserWrites(c, t, o, k)

\* ------------------------------------------------ linking and setup, whole
\* nothing is configured yet; on Twitch the first identity is subscribed, the
\* second is not
InitLink ==
    /\ InitCommon
    /\ now = 0
    /\ nextTok = MaxTok
    /\ broadcasters = [b \in BIds |-> NoRow]
    /\ broadcaster_token = NoBotRow
    /\ linked_twitch_id = [u \in Users |-> -1]
    /\ links = {}
    /\ group_members = [k \in Groups \X Users |-> "none"]
    /\ privileged = {}
    /\ status = [k \in Groups \X Users |-> "left"]
    /\ subscribed = {TwitchId(1)}

\* one check_and_notify_subscription / checkme per behaviour; one channel, set
\* up by chat identity 1 and bound to group 1
NextLink ==
    \/ \E u \in Users : Start(u)
    \/ SetupCmd(1)
    \/ \E u \in Users : \E o \in {"ok", "fail"} : Setgroup(1, u, o)
    \/ \E st \in StateValues : \E t \in TwitchIds :
         \E o \in {"ok", "exchange", "noself", "db"} : CallbackUser(1, st, t, o)
    \/ \E st \in StateValues : \E resp \in ExchangeResponses :
         \E o \in {"ok", "exchange", "noself"} : CallbackSetup(st, 1, resp, o)
    \/ \E u \in Users : CheckmeStart(1, u)
    \/ EnsureValidStart(1)
    \/ EnsureValidResponse(1)
    \/ EnsureValidRefreshFails(1)
    \/ EnsureValidWrite(1)
    \/ EnsureValidWriteFails(1)
    \/ \E o \in {"sub", "notsub", "unauthorized", "unavailable"} :
         CnCheck(1, o) \/ CnRecheck(1, o)
    \/ \E created \in {0, InviteOf(1)} : CnNotify(1, created)
    \/ CnError(1)
    \/ CnSendFails(1)

SpecLink == InitLink /\ [][NextLink]_vars

\* ------------------------------------------- checks and notifications only
\* A channel is set up, with or without a bound group, its token within its
\* TTL or not; bot.py has no channel token, a valid one or an expired one; every
\* chat identity is unlinked, linked and subscribed, or linked and not
\* subscribed. One check_and_notify_subscription per behaviour.
InitNotify ==
    /\ InitCommon
    /\ nextTok = MaxTok
    /\ now = 0
    /\ \E g \in {0, 1} : \E ttl \in {Margin, DefaultExpiresIn} :
         broadcasters = [b \in BIds |-> IF b = 1
                                        THEN [GrantRow(1, 1, g) EXCEPT !.ttl = ttl]
                                        ELSE NoRow]
    /\ broadcaster_token \in
          {NoBotRow} \cup {SaveBroadcasterTokens(ChannelId, 109, 109, e, 0) :
                              e \in {BotMargin, DefaultExpiresIn}}
    /\ \E prof \in [Users -> [status : {"left"}, gm : {"none"}, priv : {FALSE},
                                link : {0, 1, 2}]] : World(prof)

NextNotify ==
    \/ \E u \in Users : CheckmeStart(1, u)
    \/ EnsureValidStart(1)
    \/ EnsureValidResponse(1)
    \/ EnsureValidRefreshFails(1)
    \/ EnsureValidWrite(1)
    \/ EnsureValidWriteFails(1)
    \/ \E o \in {"sub", "notsub", "unauthorized", "unavailable"} :
         CnCheck(1, o) \/ CnRecheck(1, o)
    \/ \E created \in {0, InviteOf(1)} : CnNotify(1, created)
    \/ CnError(1)
    \/ CnSendFails(1)
    \/ \E c \in Users : \E t \in TwitchIds : \E o \in {"none", "ok", "error"} :
         \E k \in {"sub", "notsub", "nodata"} : BotCallbackUser(c, t, o, k)

SpecNotify == InitNotify /\ [][NextNotify]_vars

\* ------------------------------------- the on-demand sweeps and their sender
\* grant 1 (owner 1) is bound to group 1, grant 2 (owner 2) to no group; every
\* chat identity is a member or an administrator of group 1, with or without
\* a group_members row, unlinked or linked and not subscribed
InitOwn ==
    /\ InitCommon
    /\ broadcaster_token = NoBotRow
    /\ nextTok = MaxTok
    /\ now \in {0, DefaultExpiresIn - Margin}
    /\ broadcasters = [b \in BIds |-> IF b = 1 THEN GrantRow(1, 1, 1)
                                               ELSE GrantRow(b, 2, 0)]
    /\ \E prof \in [Users -> [status : {"member", "administrator"},
                                gm : {"in", "none"},
                                priv : {FALSE}, link : {0, 2}]] : World(prof)

NextOwn ==
    \/ \E u \in Users : AuditnowStart(1, u)
    \/ AuditnowReply(1)
    \/ AgkLoop(1)
    \/ \E chat \in Groups \cup {0} : \E u \in Users : AuditfullStartBy(1, chat, u)
    \/ \E o \in GetChatMemberOutcomes : AuditfullFilter(1, o)
    \/ \E o \in GetChatMemberOutcomes : AuditfullLoop(1, o)
    \/ AuditfullReply(1)
    \/ \E o \in {"sub", "notsub", "unauthorized", "unavailable"} : AuditfullCheck(1, o)
    \/ \E o \in {"sub", "notsub", "unauthorized", "unavailable"} : AuditfullRecheck(1, o)
    \/ Ban(1)
    \/ Unban(1)
    \/ Mark(1)
    \/ RemovalFails(1)
    \/ EnsureValidStart(1)
    \/ EnsureValidResponse(1)
    \/ EnsureValidRefreshFails(1)
    \/ EnsureValidWrite(1)
    \/ EnsureValidWriteFails(1)

SpecOwn == InitOwn /\ [][NextOwn]_vars

\* --------------------------------------------- setup and setgroup, whole
\* two channels, two owners, time passing between the commands; the exchange
\* always answers with a complete token body
NextGroup ==
    \/ \E u \in Users : SetupCmd(u)
    \/ \E st \in StateValues : \E bid \in BIds :
         \E resp \in {r \in ExchangeResponses : r.refresh # 0 /\ r.expires_in = 0} :
            \E o \in {"ok", "exchange", "noself"} : CallbackSetup(st, bid, resp, o)
    \/ \E g \in Groups \cup {0} : \E u \in Users : \E o \in {"ok", "fail"} :
         Setgroup(g, u, o)
    \/ Tick(1)

SpecGroup == InitLink /\ [][NextGroup]_vars

\* ---------------------------------------------------------- bot.py, whole
NextBot ==
    \/ \E u \in Users : BotStart(u) \/ BotLinkCanal(u)
    \/ \E t \in TwitchIds \cup {ChannelId} : \E resp \in ExchangeResponses :
         BotCallbackOwner(t, resp)
    \/ \E c \in Users : \E t \in TwitchIds : \E o \in {"none", "ok", "error"} :
         \E k \in {"sub", "notsub", "nodata"} : BotCallbackUser(c, t, o, k)
    \/ Tick(3479)

SpecBot == InitLink /\ [][NextBot]_vars

\* ------------------------------------------------ callback requests, whole
\* the requests that reach the three callback routes, with their answers: the
\* state values come from /start and /setup of chat identity 1 or from nowhere
NextRequest ==
    \/ Start(1)
    \/ SetupCmd(1)
    \/ BotStart(1)
    \/ \E hasCode, hasState \in BOOLEAN : \E st \in StateValues :
         \E o \in {"ok", "exchange", "noself", "db", "db2"} :
            TwitchCallbackUser(1, hasCode, hasState, st, TwitchId(1), o)
    \/ \E hasCode, hasState \in BOOLEAN : \E st \in StateValues :
         \E resp \in {r \in ExchangeResponses : r.refresh # 0 /\ r.expires_in = 0} :
            \E o \in {"ok", "exchange", "noself"} :
               TwitchCallbackSetup(hasCode, hasState, st, 1, resp, o)
    \/ \E hasCode, hasState \in BOOLEAN : \E kind \in {"owner", "user", "text"} :
         \E c \in Users : \E t \in {TwitchId(1), ChannelId} : \E x \in {"ok", "token"} :
            \E resp \in {r \in ExchangeResponses : r.refresh # 0 /\ r.expires_in = 0} :
               TwitchCallback(hasCode, hasState, kind, c, t, x, resp, "none", "sub")

SpecRequest == InitLink /\ [][NextRequest]_vars

\* ------------------------------------------------- the privileged members
\* ChatMemberStatus.ADMINISTRATOR, ChatMemberStatus.OWNER (lines 866 / 931)
AdminStatuses == {"administrator", "creator"}

\* (mutant of MayPrivilege: the status of the sender is not looked at)
AnyoneMay(g, u, o) == g \in Groups /\ o = "ok"
\* lines 859-872 / 925-936: the command came from a group chat, get_chat_member
\* answered (o = "ok"; "badrequest" is caught and answered, another error ends
\* the handler) and the sender is an administrator or the owner at that moment
MayPrivilege(g, u, o) ==
    g \in Groups /\ o = "ok" /\ status[Row(g, u)] \in AdminStatuses

\* privilege_cmd lines 856-920, sent by u in chat g (0: not a group) with target
\* tgt (0: no target resolved, lines 895-900): INSERT OR REPLACE of the row
PrivilegeCmd(g, u, tgt, o) ==
    /\ privileged' = IF MayPrivilege(g, u, o) /\ tgt # 0
                     THEN privileged \cup {Row(g, tgt)}
                     ELSE privileged
    /\ UNCHANGED <<now, broadcasters, linked_twitch_id, links, group_members, world,
                   broadcaster_token, proc, nextTok, ticks, hist, linkstate>>

\* unprivilege_cmd lines 922-967: DELETE of the row
UnprivilegeCmd(g, u, tgt, o) ==
    /\ privileged' = IF MayPrivilege(g, u, o) /\ tgt # 0
                     THEN privileged \ {Row(g, tgt)}
                     ELSE privileged
    /\ UNCHANGED <<now, broadcasters, linked_twitch_id, links, group_members, world,
                   broadcaster_token, proc, nextTok, ticks, hist, linkstate>>

\* listprivileged_cmd lines 969-997, sent by u in chat g: the rows of the group
\* are read (line 975) and, unless there are none, listed in the reply (line
\* 997): <<u, "privlist", g>> is that reply to u's command
ListprivilegedCmd(g, u) ==
    /\ sent' = IF g \in Groups /\ \E t \in Users : Row(g, t) \in privileged
               THEN Send(u, "privlist", g)
               ELSE sent
    /\ UNCHANGED <<now, store, world, broadcaster_token, proc, nextTok, ticks, hist,
                   oauth_states, twitch_users, bot_users, minted, honored, reply>>

\* Telegram: somebody is promoted, demoted, leaves or joins group 1; what
\* get_chat_member (lines 865 / 930) returns afterwards
MemberStatusChange(u, s) ==
    /\ status[Row(1, u)] # s
    /\ status' = [status EXCEPT ![Row(1, u)] = s]
    /\ UNCHANGED <<now, store, subscribed, broadcaster_token, proc, nextTok, ticks,
                   hist, linkstate>>

\* chat identity 1 holds a grant that is not bound yet; everybody is in both
\* groups, as a member or as an administrator; nobody is privileged
InitPriv ==
    /\ InitCommon
    /\ now = 0
    /\ nextTok = MaxTok
    /\ broadcaster_token = NoBotRow
    /\ broadcasters = [b \in BIds |-> IF b = 1 THEN GrantRow(1, 1, 0) ELSE NoRow]
    /\ linked_twitch_id = [u \in Users |-> 0]
    /\ links = {}
    /\ group_members = [k \in Groups \X Users |-> "in"]
    /\ privileged = {}
    /\ status \in [Groups \X Users -> {"member", "administrator"}]
    /\ subscribed = {}

NextPriv ==
    \/ \E g \in Groups \cup {0} : \E u \in Users : \E tgt \in Users \cup {0} :
         \E o \in GetChatMemberOutcomes :
            PrivilegeCmd(g, u, tgt, o) \/ UnprivilegeCmd(g, u, tgt, o)
    \/ \E g \in Groups \cup {0} : \E u \in Users : ListprivilegedCmd(g, u)
    \/ \E u \in Users : \E s \in {"member", "administrator", "creator", "left"} :
         MemberStatusChange(u, s)
    \/ \E g \in Groups \cup {0} : \E o \in {"ok", "fail"} : Setgroup(g, 1, o)

SpecPriv == InitPriv /\ [][NextPriv]_vars

\* ------------------------------------------- concurrent handlers in a group
\* Telegram: u joins group 1 (a banned chat identity cannot) or leaves it, and
\* the chat_member update is dispatched to on_chat_member as invocation p
\* (lines 751-758: the new status is read from the update)
MemberEvent(p, u, s) ==
    /\ Free(p)
    /\ \/ s = "member" /\ status[Row(1, u)] = "left"
       \/ s = "left" /\ status[Row(1, u)] = "member"
    /\ status' = [status EXCEPT ![Row(1, u)] = s]
    /\ proc' = [proc EXCEPT ![p] = [Idle EXCEPT !.kind = "chat_member", !.pc = "cm_write",
                                                !.chat = 1, !.uid = u, !.event = s]]
    /\ UNCHANGED <<now, store, subscribed, broadcaster_token, nextTok, ticks, hist,
                   linkstate>>

\* on_chat_member lines 759-771: INSERT OR REPLACE with left_at NULL for a
\* member, UPDATE ... SET left_at for one who left or was removed
OnChatMember(p) ==
    /\ proc[p].pc = "cm_write"
    /\ LET r == proc[p] IN
       group_members' = IF r.event \in {"member", "restricted"}
                        THEN [group_members EXCEPT ![Row(r.chat, r.uid)] = "in"]
                        ELSE IF r.event \in {"left", "kicked"}
                        THEN MarkLeft(group_members, r.chat, r.uid)
                        ELSE group_members
    /\ proc' = [proc EXCEPT ![p].pc = "done"]
    /\ UNCHANGED <<now, broadcasters, linked_twitch_id, links, privileged, world,
                   broadcaster_token, nextTok, ticks, hist, linkstate>>

\* grant 1 is bound to group 1 and its token is fresh; both chat identities are
\* members of the group, recorded and unlinked
InitRace ==
    /\ InitCommon
    /\ broadcaster_token = NoBotRow
    /\ nextTok = MaxTok
    /\ now = 0
    /\ broadcasters = [b \in BIds |-> IF b = 1 THEN GrantRow(1, 1, 1) ELSE NoRow]
    /\ World([u \in Users |-> [status |-> "member", gm |-> "in", priv |-> FALSE,
                               link |-> 0]])

\* handlers run as concurrent tasks: each await of one may be followed by a
\* step of another
NextRace ==
    \E p \in Procs :
       \/ AuditfullDispatch(p, 1)
       \/ AuditfullFilter(p, "ok")
       \/ EnsureValidStart(p)
       \/ AuditfullLoop(p, "ok")
       \/ AuditfullReply(p)
       \/ Ban(p)
       \/ Unban(p)
       \/ Mark(p)
       \/ RemovalFails(p)
       \/ \E u \in Users : \E s \in {"member", "left"} : MemberEvent(p, u, s)
       \/ OnChatMember(p)

SpecRace == InitRace /\ [][NextRace]_vars

\* ------------------------------------------- approvals while /setgroup runs
\* chat identity 1 owns grant 1, bound to group 1 or not yet, its token fresh;
\* chat identity 1 is linked and subscribed, chat identity 2 linked and not
InitInvite ==
    /\ InitCommon
    /\ nextTok = MaxTok
    /\ now = 0
    /\ broadcaster_token = NoBotRow
    /\ \E g \in {0, 1} :
         broadcasters = [b \in BIds |-> IF b = 1 THEN GrantRow(1, 1, g) ELSE NoRow]
    /\ World([u \in Users |-> [status |-> "left", gm |-> "none", priv |-> FALSE,
                               link |-> u]])

\* /checkme handlers and /setgroup run as concurrent tasks
NextInvite ==
    \/ \E g \in Groups : \E o \in {"ok", "fail"} : Setgroup(g, 1, o)
    \/ \E p \in Procs :
         \/ \E u \in Users : CheckmeStart(p, u)
         \/ EnsureValidStart(p)
         \/ \E o \in {"sub", "notsub", "unavailable"} : CnCheck(p, o)
         \/ \E created \in {0} \cup {NewInvite(g) : g \in Groups} : CnNotify(p, created)
         \/ CnError(p)
         \/ CnSendFails(p)

SpecInvite == InitInvite /\ [][NextInvite]_vars

\* ------------------------------------------------------------ properties
Ended(p) == proc[p].pc \in {"done", "failed"}

\* a pass of audit_group_and_kick / auditfull_cmd over one group is over
PassEnded(p) == \/ Ended(p)
                \/ proc[p].kind = "weekly" /\ proc[p].pc = "wk_next"

\* the group a sweep works on
GroupOf(r) == IF r.kind = "auditfull" THEN r.chat ELSE r.b.group

\* C1 (as claimed): no sweep bans a chat identity that is listed in privileged
\* for the group, nor marks its group_members row as left.
C1_PrivilegedNeverRemoved ==
    \A p \in Procs :
        /\ proc[p].privbans = {}
        /\ \A u \in proc[p].marks : ~IsPrivileged(GroupOf(proc[p]), u)

\* a removal target: unlinked, or linked and not subscribed
IsTarget(u) == TwId(u) = 0 \/ TwId(u) \notin subscribed

\* C2 (as claimed): when a pass of auditnow or of the weekly job is over, every
\* enumerated member that is not privileged, is a removal target and for which
\* no ban or unban call failed is out of the group and has left_at set.
C2_SweepRemovesTargets ==
    \A p \in Procs :
        (proc[p].kind \in {"auditnow", "weekly"} /\ PassEnded(p)) =>
            \A u \in proc[p].enum :
                (/\ ~IsPrivileged(GroupOf(proc[p]), u)
                 /\ IsTarget(u)
                 /\ u \notin proc[p].refused)
                => /\ status[Row(GroupOf(proc[p]), u)] \notin PresentStatuses
                   /\ group_members[Row(GroupOf(proc[p]), u)] = "left"

\* C3: a member whose subscription check answered "subscribed" is not banned
\* by that sweep, its group_members row is not touched and it is not counted.
C3_SubscribedStays ==
    \A p \in Procs : \A u \in proc[p].kept :
        /\ u \notin proc[p].bans
        /\ u \notin proc[p].marks
        /\ u \notin proc[p].counted

\* a sweep is over that left a live member in place on the oracle's "subscribed"
C3_Witness ==
    \E p \in Procs : \E u \in proc[p].kept :
        /\ proc[p].pc = "done"
        /\ status[Row(GroupOf(proc[p]), u)] = "member"
        /\ group_members[Row(GroupOf(proc[p]), u)] = "in"

\* C4: a member whose subscription check ended without a definite answer
\* (transport error, 5xx, a second 401, or the refresh of the retry failing) is
\* not banned by that sweep, its row is not touched and it is not counted.
C4_UnknownStays ==
    \A p \in Procs : \A u \in proc[p].unknown :
        /\ u \notin proc[p].bans
        /\ u \notin proc[p].marks
        /\ u \notin proc[p].counted

\* a sweep is over in which the check of a live, linked, unsubscribed member failed
C4_Witness ==
    \E p \in Procs : \E u \in proc[p].unknown :
        /\ proc[p].pc = "done"
        /\ TwId(u) # 0 /\ TwId(u) \notin subscribed
        /\ status[Row(GroupOf(proc[p]), u)] = "member"
        /\ group_members[Row(GroupOf(proc[p]), u)] = "in"

\* the sweep as a whole failed before its loop: the token could not be ensured
TokenStepFailed(r) == r.ev = "failed" /\ r.site \in {"af_token", "agk_token"}

\* C6 (as claimed): when a pass is over (and its token step did not fail), the
\* processing of every member enumerated at its start has been reached.
C6_EveryCandidateReached ==
    \A p \in Procs :
        (/\ PassEnded(p)
         /\ ~TokenStepFailed(proc[p])
         /\ proc[p].kind = "auditfull" => proc[p].pc = "done")
        => proc[p].enum \subseteq proc[p].seen


\* the running sweep is the second of two of the same kind on the same grant,
\* the first one returned, and nothing changed on Twitch since it started
SecondRun(p) ==
    /\ proc[p].kind \in {"auditnow", "auditfull", "weekly"}
    /\ proc[p].b.bid # 0
    /\ hist.last.kind = proc[p].kind
    /\ hist.last.returned
    /\ hist.last.bid = proc[p].b.bid
    /\ hist.last.quiet
    /\ hist.quiet

BoundGrants == {b \in BIds : broadcasters[b].bid # 0 /\ broadcasters[b].group # 0}

\* C7: when a run of the weekly job is over, audit_group_and_kick has been
\* entered for every grant that has a bound group, whatever failed on the way.
C7_EveryGrantSwept ==
    \A p \in Procs : (proc[p].kind = "weekly" /\ Ended(p)) => proc[p].swept = BoundGrants

\* a weekly run is over in which the sweep of one grant failed and the sweep of
\* another grant came after it
C7_Witness ==
    \E p \in Procs :
        /\ proc[p].kind = "weekly" /\ proc[p].pc = "done"
        /\ proc[p].failedGrants # {}
        /\ proc[p].b.bid \notin proc[p].failedGrants
        /\ \E b \in proc[p].failedGrants : CurrentMembers(broadcasters[b].group) # {}
        /\ Cardinality(proc[p].swept) = 2

\* -------------------------------------------------- the token manager claims
\* the margin the code of the invocation subtracts
MarginOf(r) == IF r.kind = "bot" THEN BotMargin ELSE Margin

\* what the call of r has returned so far, against the row it was given
C8_Returns ==
    \A p \in Procs :
        LET r == proc[p]
            fresh == r.evT < r.evrow.obtained + r.evrow.ttl - MarginOf(r)
        IN /\ r.ev = "fresh" => (fresh /\ r.access = r.evrow.access
                                       /\ r.calls = 0 /\ r.writes = 0)
           /\ r.ev = "stale" => (~fresh /\ r.writes = 0
                                       /\ r.calls = IF r.pc = "ev_refresh" THEN 0 ELSE 1)
           /\ r.ev = "failed" => (~fresh /\ r.calls = 1 /\ r.writes = 0)
           /\ r.ev = "refreshed" => (~fresh /\ r.calls = 1 /\ r.writes = 1
                                           /\ r.access = r.resp.access)

\* the step in which a call returns: fresh leaves both token tables alone,
\* refreshed leaves the returned access token in the table
C8_Persists ==
    \A p \in Procs :
        LET r == proc[p]
            q == proc'[p]
            returns == r.pc \in {"idle", "ev", "ev_write"} /\ q.pc # r.pc
        IN /\ (returns /\ q.ev = "fresh")
                => (broadcasters' = broadcasters /\ broadcaster_token' = broadcaster_token)
           /\ (returns /\ q.ev = "refreshed" /\ q.kind # "bot")
                => broadcasters'[q.evrow.bid].access = q.access
           /\ (returns /\ q.ev = "refreshed" /\ q.kind = "bot")
                => /\ broadcaster_token'.access = q.access
                   /\ broadcaster_token'.expires_at = now + ExpiresIn(q.resp) - BotMargin

\* C8: a call of ensure_valid_broadcaster_token / get_valid_broadcaster_token
\* returns the access token of the row it was given, without a refresh call and
\* without a write, when the clock is before obtained + ttl - margin; otherwise
\* it makes exactly one refresh call and, when that succeeds, writes the new
\* access token and returns it.
C8_EnsureValid == []C8_Returns /\ [][C8_Persists]_vars

\* one call has returned the row's token untouched and another has refreshed
C8_Witness ==
    \E p, q \in Procs :
        /\ proc[p].ev = "fresh" /\ proc[p].pc = "done"
        /\ proc[q].ev = "refreshed" /\ proc[q].pc = "done" /\ proc[q].kind = "check"
        /\ proc[q].evT >= proc[q].evrow.obtained + proc[q].evrow.ttl - Margin
        /\ broadcasters[proc[q].evrow.bid].access = proc[q].access

\* C9: in the step that stores a refresh whose response carried no
\* refresh_token, the stored refresh token becomes the one of the row the call
\* was given, which is the one stored before the step unless another call wrote
\* in between; and no storing step leaves the stored refresh token empty.
C9_RefreshTokenKept ==
    [][\A p \in Procs :
         LET r == proc[p]
             q == proc'[p]
         IN /\ (r.pc = "ev_write" /\ q.writes = r.writes + 1)
                 => /\ broadcasters'[r.evrow.bid].refresh # 0
                    /\ r.resp.refresh = 0 =>
                          /\ broadcasters'[r.evrow.bid].refresh = r.evrow.refresh
                          /\ TokenFields(broadcasters[r.evrow.bid]) = TokenFields(r.evrow)
                               => broadcasters'[r.evrow.bid].refresh
                                     = broadcasters[r.evrow.bid].refresh
            /\ (r.pc = "idle" /\ q.kind = "bot" /\ q.ev = "refreshed")
                 => /\ broadcaster_token'.refresh # 0
                    /\ q.resp.refresh = 0
                          => broadcaster_token'.refresh = broadcaster_token.refresh]_vars

\* a refresh without a refresh_token has been stored: new access token, old
\* refresh token
C9_Witness ==
    \E p \in Procs :
        /\ proc[p].kind = "check" /\ proc[p].ev = "refreshed"
        /\ proc[p].resp.refresh = 0
        /\ broadcasters[proc[p].evrow.bid].access = proc[p].resp.access
        /\ broadcasters[proc[p].evrow.bid].refresh = proc[p].evrow.refresh
        /\ proc[p].evrow.refresh # 0

\* C10: the token fields of a grant change only in the storing step of a
\* refresh, and then all four become the values of that one response (its
\* access token, its refresh token or the row's, the time of the response, its
\* expires_in or 3600); a refresh call or a write that fails changes none.
C10_TokenFieldsAtomic ==
    [][/\ \A b \in BIds :
            TokenFields(broadcasters'[b]) # TokenFields(broadcasters[b])
            => \E p \in Procs :
                 LET r == proc[p] IN
                 /\ r.pc = "ev_write" /\ r.evrow.bid = b
                 /\ proc'[p].ev = "refreshed"
                 /\ TokenFields(broadcasters'[b]) =
                       [access |-> r.resp.access,
                        refresh |-> IF r.resp.refresh = 0 THEN r.evrow.refresh
                                    ELSE r.resp.refresh,
                        obtained |-> r.respT,
                        ttl |-> IF r.resp.expires_in = 0 THEN DefaultExpiresIn
                                ELSE r.resp.expires_in]
       /\ \A p \in Procs :
            (proc'[p].ev = "failed" /\ proc[p].ev # "failed")
            => (broadcasters' = broadcasters /\ broadcaster_token' = broadcaster_token)]_vars

\* a refresh call has failed on a grant whose row is as it was read, and a
\* refresh has been stored whole
C10_Witness ==
    \E p, q \in Procs :
        /\ proc[p].kind = "check" /\ proc[p].ev = "failed" /\ proc[p].calls = 1
        /\ TokenFields(broadcasters[proc[p].evrow.bid]) = TokenFields(proc[p].evrow)
        /\ proc[q].kind = "check" /\ proc[q].ev = "refreshed"
        /\ TokenFields(broadcasters[proc[q].evrow.bid]) = proc[q].pending
        /\ proc[q].pending.obtained > 0

\* ----------------------------------------------------- concurrent refreshes
\* the finished calls of ensure_valid_broadcaster_token that refreshed grant b
RefreshedOn(b) ==
    {p \in Procs : /\ proc[p].kind # "bot"
                   /\ proc[p].ev = "refreshed"
                   /\ proc[p].evrow.bid = b}

\* the refresh tokens the token endpoint handed to those calls
RefreshTokensFor(b) == {proc[p].resp.refresh : p \in RefreshedOn(b)} \ {0}

\* C11 (as claimed): once no call is in flight, the access token stored on a
\* grant is the one of the latest token response that was stored for it, and
\* the stored refresh token is the latest refresh token the endpoint handed
\* out for it (the one the calls started from when no response carried one).
C11_LatestRefreshStored ==
    \A b \in BIds :
        (/\ \A p \in Procs : proc[p].pc \in {"idle", "done", "failed"}
         /\ RefreshedOn(b) # {})
        => LET last == CHOOSE p \in RefreshedOn(b) :
                          \A q \in RefreshedOn(b) :
                              proc[q].resp.access <= proc[p].resp.access
           IN /\ broadcasters[b].access = proc[last].resp.access
              /\ broadcasters[b].refresh =
                    IF RefreshTokensFor(b) = {} THEN proc[last].evrow.refresh
                    ELSE CHOOSE t \in RefreshTokensFor(b) :
                            \A t2 \in RefreshTokensFor(b) : t2 <= t


\* C12: when a subscription check answers Unauthorized, the caller re-reads the
\* grant row, makes one refresh call to the token endpoint even if the stored
\* token is still within its TTL, and retries the check exactly once. Here: an
\* invocation that is about to retry has re-read the row and its second
\* ensure_valid made one call to the token endpoint; no invocation checks more
\* than twice.
C12_RetryAfterForcedRefresh ==
    \A p \in Procs :
       /\ proc[p].checks <= 2
       /\ proc[p].pc = "cn_recheck"
            => /\ proc[p].reread
               /\ proc[p].checks = 1
               /\ proc[p].calls = 1

\* ------------------------------------------------------------- C13 .. C16
\* start / setup_cmd stored this state value with this purpose
MintedFor(purpose, st) == \E u \in Users : <<purpose, st, u>> \in minted

C14_UnmintedRejected ==
    [][~UNCHANGED <<store, twitch_users, honored, bot_users, broadcaster_token>> =>
         /\ \A st \in StateValues :
               ~(MintedFor("user_link", st) \/ MintedFor("broadcaster_setup", st)) =>
                  /\ \A p \in Procs : \A t \in TwitchIds :
                       \A o \in {"ok", "exchange", "noself", "db"} :
                          ~CallbackUser(p, st, t, o)
                  /\ \A bid \in BIds : \A resp \in ExchangeResponses :
                       \A o \in {"ok", "exchange", "noself"} :
                          ~CallbackSetup(st, bid, resp, o)
         /\ \A c \in Users : <<"bot_start", c, c>> \notin minted =>
               \A t \in TwitchIds : \A o \in {"none", "ok", "error"} :
                  \A k \in {"sub", "notsub", "nodata"} : ~BotCallbackUser(c, t, o, k)
         /\ (\A c \in Users : <<"bot_owner", c, c>> \notin minted) =>
               \A t \in TwitchIds \cup {ChannelId} : \A resp \in ExchangeResponses :
                  ~BotCallbackOwner(t, resp)]_vars

\* C15: an authorization state is single-use: once a callback carrying state S
\* has been honored, S is consumed, so a second callback carrying S is
\* rejected. No state value is honored more than once by either callback.
C15_SingleUse == \A k \in DOMAIN honored : honored[k] <= 1

\* C16: when a viewer-link callback carrying a state minted by start for chat
\* identity c completes and the external identity resolves to streaming id t,
\* then afterwards linked_twitch_id of c is t, a twitch_users row for t exists
\* and a links row (c, t) exists; c is the chat identity stored with the state,
\* and no other chat identity's link is touched.
C16_ViewerLinked ==
    [][honored' # honored =>
         \A p \in Procs : \A st \in StateValues : \A t \in TwitchIds :
            CallbackUser(p, st, t, "ok") =>
               LET c == oauth_states[st].telegram_id IN
               /\ <<"user_link", st, c>> \in minted
               /\ linked_twitch_id'[c] = t
               /\ t \in twitch_users'
               /\ <<c, t>> \in links'
               /\ links' \subseteq links \cup {<<c, t>>}
               /\ \A u \in Users \ {c} : linked_twitch_id'[u] = linked_twitch_id[u]]_vars

\* chat identity 2 completed a link through its own state while chat identity 1,
\* which also ran start, stays unlinked
C16_Witness ==
    \E st \in StateValues : \E t \in TwitchIds :
       /\ <<"user_link", st, 2>> \in minted
       /\ honored[<<"user", st>>] > 0
       /\ linked_twitch_id[2] = t /\ t \in twitch_users /\ <<2, t>> \in links
       /\ linked_twitch_id[1] = 0
       /\ \E s1 \in StateValues : <<"user_link", s1, 1>> \in minted

\* ------------------------------------------------------------- C17, C18
\* invocation p sends its notification in this step
Notifies(p) == proc[p].pc = "cn_notify" /\ proc'[p].pc = "done"

\* C17: after a subscription check that answers subscribed, the chat identity
\* is sent the invite link of the bound group of the grant row the flow works
\* on when that row has a group, and is told to wait when it has none; for the
\* check scheduled by a completed viewer link and for checkme alike.
C17_InviteOrWait ==
    [][\A p \in Procs :
          (Notifies(p) /\ proc[p].answer = "sub") =>
             /\ proc[p].kind \in {"linkcheck", "checkme"}
             /\ sent' = sent \cup
                  {IF proc[p].b.group # 0
                   THEN <<proc[p].chat, "invite", InviteOf(proc[p].b.group)>>
                   ELSE <<proc[p].chat, "wait", 0>>}]_vars

\* the check scheduled by a completed viewer link answered subscribed and the
\* invite link of the bound group went to the chat identity that linked
C17_Witness ==
    \E p \in Procs :
       /\ proc[p].kind = "linkcheck" /\ proc[p].pc = "done" /\ proc[p].answer = "sub"
       /\ proc[p].b.group # 0
       /\ <<proc[p].chat, "invite", InviteOf(proc[p].b.group)>> \in sent
       /\ <<proc[p].chat, proc[p].tw>> \in links

\* C18: an invite link is sent to a chat identity only after a subscription
\* check for that identity's linked streaming id answered subscribed in the same
\* flow; when the check answers not subscribed the chat identity receives the
\* not-subscribed message and no invite link. The first two conjuncts are
\* check_and_notify_subscription, the last two bot.py's callback.
C18_InviteOnlyIfSubscribed ==
    [][/\ \A c \in Users : \A l \in {InviteOf(g) : g \in Groups} :
            (<<c, "invite", l>> \in sent' /\ <<c, "invite", l>> \notin sent) =>
               \E p \in Procs : /\ Notifies(p)
                                /\ proc[p].chat = c
                                /\ proc[p].answer = "sub"
                                /\ proc[p].checks >= 1
                                /\ <<c, proc[p].tw>> \in links
       /\ \A p \in Procs :
            (Notifies(p) /\ proc[p].answer = "notsub") =>
               sent' = sent \cup {<<proc[p].chat, "notsub", 0>>}
       /\ \A c \in Users :
            (<<c, "bot_sub", 0>> \in sent' /\ <<c, "bot_sub", 0>> \notin sent) =>
               \E t \in subscribed : \E o \in {"none", "ok"} :
                  BotCallbackUser(c, t, o, "sub")
       /\ \A c \in Users : \A t \in TwitchIds : \A o \in {"none", "ok"} :
            (broadcaster_token.bid # 0 /\ BotCallbackUser(c, t, o, "notsub")) =>
               /\ <<c, "bot_notsub", 0>> \in sent'
               /\ sent' \ sent \subseteq {<<c, "bot_notsub", 0>>}]_vars

\* both programs have told a chat identity that it is not subscribed, and both
\* have sent the invite message after a check that answered subscribed
C18_Witness ==
    /\ \E c \in Users : <<c, "bot_notsub", 0>> \in sent
    /\ \E c \in Users : <<c, "bot_sub", 0>> \in sent /\ bot_users[c] \in subscribed
    /\ \E p \in Procs : /\ proc[p].pc = "done" /\ proc[p].answer = "sub"
                        /\ <<proc[p].chat, "invite", InviteOf(proc[p].b.group)>> \in sent
                        /\ proc[p].tw \in subscribed

\* ------------------------------------------------------------- C19, C20
\* C19: after an operator-setup callback completes with a state minted by setup
\* for chat identity c, the grant has owner c and both its access token and its
\* refresh token are non-empty, including when the token exchange response
\* omits a refresh token.
C19_GrantComplete ==
    [][honored' # honored =>
         \A st \in StateValues : \A bid \in BIds : \A resp \in ExchangeResponses :
            CallbackSetup(st, bid, resp, "ok") =>
               /\ <<"broadcaster_setup", st, broadcasters'[bid].owner>> \in minted
               /\ broadcasters'[bid].bid = bid
               /\ broadcasters'[bid].access # 0
               /\ broadcasters'[bid].refresh # 0]_vars

\* C20: the bound group and the cached invite link of an existing grant are
\* preserved by a repeated operator setup for the same channel and by every
\* token refresh: a step of the setup callback for channel b, or of the UPDATE
\* of ensure_valid_broadcaster_token, leaves group and invite of every existing
\* grant as they were.
C20_GroupBindingKept ==
    [][(/\ broadcasters' # broadcasters
        /\ \/ \E st \in StateValues : \E bid \in BIds : \E resp \in ExchangeResponses :
                 CallbackSetup(st, bid, resp, "ok")
           \/ \E p \in Procs : EnsureValidWrite(p))
          => \A b \in BIds :
                broadcasters[b].bid # 0 =>
                   /\ broadcasters'[b].group = broadcasters[b].group
                   /\ broadcasters'[b].invite = broadcasters[b].invite]_vars

\* a grant bound to a group was refreshed (the refresh wrote a token the token
\* endpoint issued) and set up again afterwards (the stored access token is
\* again one of the exchange), and it still has the group and the link
C20_Witness ==
    \E p \in Procs :
       LET old == proc[p].evrow
           row == broadcasters[old.bid]
       IN /\ proc[p].ev = "refreshed" /\ proc[p].writes = 1
          /\ old.bid # 0 /\ old.group # 0 /\ old.invite # 0
          /\ row.access \in {r.access : r \in ExchangeResponses}
          /\ row.access # proc[p].pending.access
          /\ row.group = old.group /\ row.invite = old.invite

C30_DisjointGroups ==
    \A b, c \in BIds :
       (b # c /\ broadcasters[b].bid # 0 /\ broadcasters[c].bid # 0
          /\ broadcasters[b].group # 0)
         => broadcasters[b].group # broadcasters[c].group

\* the subscription check of invocation p is over and no send_message of it
\* raised: it sent its notification or its error notice, or an exception left
\* the PermissionError handler (re-read, refresh, retry)
CheckOver(p) ==
    /\ proc[p].kind \in {"checkme", "linkcheck"}
    /\ \/ proc[p].pc = "done" /\ proc[p].ev # "none"
       \/ proc[p].pc = "failed" /\ proc[p].reread /\ proc[p].answer = "none"

\* C22: every subscription check started for a chat identity (by checkme or by
\* a completed viewer link) ends with at least one terminal message to that chat
\* identity: invite link, wait, not-subscribed or the retry-later notice,
\* including when the check answers Unauthorized and the retry or the refresh
\* then fails.
C22_NeverSilent ==
    \A p \in Procs :
       CheckOver(p) =>
          \E m \in sent : m[1] = proc[p].chat
                          /\ m[2] \in {"invite", "wait", "notsub", "error"}

\* C23: every sweep invocation ends with a report of its removal count:
\* auditnow and auditfull reply to the invoker with the count, and the weekly
\* job sends the count to the owner of each grant that has a bound group,
\* whatever the set of current members is.
C23_SweepReports ==
    \A p \in Procs :
       /\ (proc[p].kind \in {"auditnow", "auditfull"} /\ proc[p].b.bid # 0
             /\ proc[p].pc \in {"done", "failed"})
            => proc[p].reported = proc[p].kicked
       /\ (proc[p].kind = "weekly" /\ proc[p].pc = "done" /\ proc[p].swept # {})
            => proc[p].reported # -1

\* the chat identity that sent the command invocation r handles
Invoker(r) == IF r.kind = "auditnow" THEN r.chat ELSE r.by

\* C24: an on-demand sweep (auditnow or auditfull) is run only for the caller's
\* own grant: an invocation by a chat identity that is not the owner of the
\* grant bound to the group removes no member of that group.
C24_OwnGrantOnly ==
    \A p \in Procs :
       (proc[p].kind \in {"auditnow", "auditfull"} /\ proc[p].bans # {})
          => Invoker(proc[p]) = proc[p].b.owner

\* a request to bot.py's callback carries a state that /start or /link_canal
\* gave out (bot.py keeps no store: the state is the chat id itself)
BotIssued(kind, c) ==
    \/ kind = "user" /\ <<"bot_start", c, c>> \in minted
    \/ kind = "owner" /\ <<"bot_owner", c, c>> \in minted

\* the answer "400, nothing done": no exchange asked for, nothing written or sent
Refused == reply' = Answer(400, FALSE) /\ UNCHANGED written

\* C25 (as claimed): a viewer-link or operator-setup callback request without a
\* code or a state, or with a state that is not stored or is stored for the
\* other purpose, is answered 400 and has no effect: no token exchange is asked
\* for, no row is written and no message is sent. This holds of both routes of
\* bot_twitch_linker.py and fails for the callback of bot.py.
C25_BadRequestRefused ==
    [][Refused \/
       /\ \A hasCode, hasState \in BOOLEAN : \A st \in StateValues :
            \A o \in {"ok", "exchange", "noself", "db", "db2"} :
               ~(hasCode /\ hasState /\ oauth_states[st].purpose = "user_link")
               => ~TwitchCallbackUser(1, hasCode, hasState, st, TwitchId(1), o)
       /\ \A hasCode, hasState \in BOOLEAN : \A st \in StateValues :
            \A resp \in ExchangeResponses : \A o \in {"ok", "exchange", "noself"} :
               ~(hasCode /\ hasState /\ oauth_states[st].purpose = "broadcaster_setup")
               => ~TwitchCallbackSetup(hasCode, hasState, st, 1, resp, o)
       /\ \A hasCode, hasState \in BOOLEAN : \A kind \in {"owner", "user", "text"} :
            \A c \in Users : \A t \in {TwitchId(1), ChannelId} :
               \A x \in {"ok", "token"} : \A resp \in ExchangeResponses :
                  ~(hasCode /\ hasState /\ BotIssued(kind, c))
                  => ~TwitchCallback(hasCode, hasState, kind, c, t, x, resp,
                                     "none", "sub")
      ]_vars

\* C26: the privileged rows of a group change only by /privilege or /unprivilege
\* sent inside that group by somebody whose status there, as Telegram reports
\* it at that moment, is administrator or owner; sent by anybody else, outside
\* a group, or when the status cannot be read, the commands change nothing.
C26_PrivilegedByAdminsOnly ==
    [][privileged' # privileged =>
         /\ \E g \in Groups : \E u, tgt \in Users :
              /\ status[Row(g, u)] \in AdminStatuses
              /\ \/ privileged' = privileged \cup {Row(g, tgt)}
                 \/ privileged' = privileged \ {Row(g, tgt)}
              /\ PrivilegeCmd(g, u, tgt, "ok") \/ UnprivilegeCmd(g, u, tgt, "ok")
         /\ \A g \in Groups \cup {0} : \A u \in Users : \A tgt \in Users \cup {0} :
              \A o \in GetChatMemberOutcomes :
                 (g = 0 \/ o # "ok" \/ status[Row(g, u)] \notin AdminStatuses)
                 => ~(PrivilegeCmd(g, u, tgt, o) \/ UnprivilegeCmd(g, u, tgt, o))
      ]_vars

\* somebody who is an ordinary member of a group is listed as privileged
\* there, in a group with no administrator left to have done it just now
C26_Witness ==
    \E g \in Groups : \E u \in Users :
       /\ Row(g, u) \in privileged
       /\ \A v \in Users : status[Row(g, v)] \notin AdminStatuses

\* C27 (as claimed): /listprivileged sent by somebody who is neither an
\* administrator nor the owner of the group does not show the list.
C27_ListForAdminsOnly ==
    [][\A g \in Groups : \A u \in Users :
          (<<u, "privlist", g>> \in sent' /\ <<u, "privlist", g>> \notin sent)
          => status[Row(g, u)] \in AdminStatuses]_vars

\* an on-demand sweep has replied with its count
Replied(p) == /\ proc[p].kind \in {"auditnow", "auditfull"}
              /\ proc[p].pc = "done"
              /\ proc[p].reported # -1

\* C28 (as claimed): the count a sweep returns is the number of members its
\* bans ejected in that pass, also when the unban or the UPDATE of the
\* membership row failed after a ban that took effect.
C28_CountIsEjected ==
    \A p \in Procs : Replied(p) => proc[p].reported = Cardinality(proc[p].bans)

\* the members sweep p has banned and still holds banned: the ban took effect
\* and neither is the sweep about to unban that member nor did the unban fail
HeldBanned(p) ==
    {u \in proc[p].bans :
        /\ status[Row(GroupOf(proc[p]), u)] = "kicked"
        /\ ~(proc[p].pc = "unban" /\ proc[p].uid = u)
        /\ u \notin proc[p].refused}

Removing(p) == /\ proc[p].kind \in {"auditnow", "auditfull", "weekly"}
               /\ proc[p].pc = "unban"

\* C31 (as claimed): under any interleaving of concurrently running sweeps no
\* two ban/unban sequences for the same chat identity in the same group are in
\* progress at the same time, and no member is counted as removed by two sweeps.
C31_RemovalsSerialized ==
    \A p, q \in Procs :
        (p # q /\ GroupOf(proc[p]) = GroupOf(proc[q]))
        => /\ ~(Removing(p) /\ Removing(q) /\ proc[p].uid = proc[q].uid)
           /\ proc[p].counted \cap proc[q].counted = {}

\* C32 (as claimed): in every reachable state, also after a write of the
\* viewer-link callback failed part-way, a chat identity whose
\* linked_twitch_id is s has a twitch_users row for s and a links row
\* (chat identity, s).
C32_LinkCommitAtomic ==
    \A c \in Users :
        linked_twitch_id[c] > 0
        => /\ linked_twitch_id[c] \in twitch_users
           /\ <<c, linked_twitch_id[c]>> \in links

\* C33 (as claimed): in the viewer-link flow the not-subscribed message goes
\* out only after the subscription check gave the definite answer that there
\* is no subscription; a check that failed is never read as "not subscribed".
C33_FailedCheckIsUnknown ==
    [][/\ \A c \in Users :
            (<<c, "bot_notsub", 0>> \in sent' /\ <<c, "bot_notsub", 0>> \notin sent)
            => bot_users'[c] \notin subscribed
       /\ \A c \in Users :
            (<<c, "notsub", 0>> \in sent' /\ <<c, "notsub", 0>> \notin sent)
            => \E p \in Procs : /\ proc[p].pc = "cn_notify"
                                /\ proc[p].chat = c
                                /\ proc[p].answer = "notsub"
                                /\ proc[p].tw \notin subscribed]_vars

\* C34: /auditfull never calls ban_chat_member for a chat identity that is an
\* administrator or the owner of the group, be it unlinked or not subscribed.
C34_AdminsNeverBanned ==
    \A p \in Procs :
        (proc[p].kind = "auditfull" /\ proc[p].pc = "ban")
        => status[Row(proc[p].chat, proc[p].uid)] # "administrator"

\* an /auditfull is over that removed a member and passed over an administrator
\* who is unlinked or not subscribed
C34_Witness ==
    \E p \in Procs : \E u \in Users :
        /\ proc[p].kind = "auditfull" /\ proc[p].pc = "done"
        /\ proc[p].bans # {}
        /\ u \in proc[p].enum /\ u \in proc[p].seen
        /\ status[Row(proc[p].chat, u)] = "administrator"
        /\ (TwId(u) = 0 \/ TwId(u) \notin subscribed)
        /\ u \notin proc[p].bans /\ u \notin proc[p].refused

\* C35 (as claimed): a telegram_users row is never deleted, and its
\* linked_twitch_id changes only in a viewer-link callback for that chat
\* identity that completes (the twitch_users row and the links row are there,
\* the state has been honored); no other step changes it, so that a link once
\* set never returns to null. (-1: no row; 0: NULL.)
C35_LinkedIdFrame ==
    [][\A c \in Users :
          linked_twitch_id'[c] # linked_twitch_id[c]
          => \/ linked_twitch_id[c] = -1 /\ linked_twitch_id'[c] = 0
             \/ /\ linked_twitch_id'[c] > 0
                /\ linked_twitch_id'[c] \in twitch_users'
                /\ <<c, linked_twitch_id'[c]>> \in links'
                /\ \E st \in StateValues :
                     /\ oauth_states[st] = [purpose |-> "user_link", telegram_id |-> c]
                     /\ honored'[<<"user", st>>] = honored[<<"user", st>>] + 1]_vars

\* the invite-link messages a step adds
NewInviteMessages == {m \in sent' : m \notin sent /\ m[2] = "invite"}

\* C36 (as claimed): an invite-link message carries the link that is stored on
\* the grant at that moment, which only /setgroup changes, so that two such
\* messages with no /setgroup on the grant in between carry the same link; and
\* no approval creates a link for a grant whose group is bound.
C36_OneLinkReused ==
    [][\A p \in Procs :
          (proc[p].pc = "cn_notify" /\ proc'[p].pc = "done")
          => /\ broadcasters' = broadcasters
             /\ \A m \in NewInviteMessages : m[3] = broadcasters[proc[p].b.bid].invite]_vars

\* C37: in bot.py the table broadcaster_token (primary key broadcaster_id) never
\* holds a row for anything but the configured channel, hence at most one row,
\* and the row's refresh token is not empty; an owner callback by another
\* identity, or whose token response has no refresh token, stores nothing.
C37_OneChannelRow ==
    /\ [](/\ broadcaster_token.bid \in {0, ChannelId}
          /\ broadcaster_token.bid # 0 => broadcaster_token.refresh # 0)
    /\ [][\/ broadcaster_token' = broadcaster_token
          \/ \A t \in TwitchIds \cup {ChannelId} : \A resp \in ExchangeResponses :
               (t # ChannelId \/ resp.refresh = 0) => ~BotCallbackOwner(t, resp)]_vars

\* the channel's row after a refresh whose response had no refresh token
C37_Witness ==
    /\ broadcaster_token.bid = ChannelId
    /\ broadcaster_token.refresh # 0
    /\ broadcaster_token.access # broadcaster_token.refresh
    /\ broadcaster_token.obtained > 0

\* C38: when a sweep has banned and unbanned a chat identity, that chat identity
\* joined the group again afterwards, and both the sweep and the handler of the
\* join event have finished, the membership row says the member is present.
C38_RejoinedIsPresent ==
    \A p, q \in Procs :
       (/\ proc[p].kind = "auditfull" /\ proc[p].pc = "done"
        /\ proc[q].kind = "chat_member" /\ proc[q].pc = "done"
        /\ proc[q].event = "member"
        /\ proc[q].uid \in proc[p].bans
        /\ status[Row(proc[q].chat, proc[q].uid)] = "member")
       => group_members[Row(proc[q].chat, proc[q].uid)] = "in"

====
